---------------------------- MODULE Spec2Model ----------------------------
(***************************************************************************)
(* A model of the esp32c3-embassy firmware and of the waveshare-154bv2     *)
(* display driver it uses.                                                 *)
(*                                                                         *)
(* Specifications:                                                         *)
(*   Spec         the firmware across deep-sleep cycles (main.rs: the      *)
(*                orchestrator, the sensor task, the display task, the     *)
(*                WiFi connection task, the retained RTC memory)           *)
(*   SpecRound    the rounded-wakeup arithmetic of clock.rs                *)
(*   SpecHistory  the retained history ring buffer written by display.rs   *)
(*   SpecBuffer   the two-plane frame buffer of buffer.rs                  *)
(*   SpecDriver   the display driver of async.rs and blocking.rs: its      *)
(*                operations, step by step, on the pins and the SPI bus    *)
(*                                                                         *)
(* Time is counted in ticks of the embassy time driver; a Duration and an  *)
(* Instant are tick counts, as in embassy_time.                            *)
(***************************************************************************)
EXTENDS Integers, Sequences, FiniteSets, Bags, TLC

VARIABLES
    \* ---- SpecRound: one call of next_rounded_wakeup -----------------------
    round_now,        \* argument `now` (a Duration since the Unix epoch)
    round_period,     \* argument `period`
    round_then,       \* value returned by next_rounded_wakeup
    round_wait,       \* value returned by duration_to_next_rounded_wakeup
    round_pc,         \* "input" before the call, "done" after it
    round_calls,      \* number of calls made so far
    \* ---- SpecBuffer: a frame buffer being drawn on ------------------------
    buffer,           \* Buffer { rotation, black, chromatic }, buffer.rs:54-63
    drawn,            \* the pixels handed to the last draw_iter call
    draws,            \* number of draw_iter calls made so far
    painted,          \* for every pixel of the panel, the colour of the last draw
                      \* on it that was not Transparent, "none" before any
    \* ---- retained RTC fast memory (survives deep sleep) -------------------
    BOOT_TIME,        \* clock.rs:28-29: [epoch, offset], (0, 0) before any save
    BOOT_COUNT,       \* main.rs:161-162
    history,          \* HISTORY, main.rs:168-170
    \* ---- one power-on session ---------------------------------------------
    uptime,           \* Instant::now(), in ticks since power-on
    main_pc,          \* where main / main_fallible stands
    main_error,       \* the error main_fallible returned, "none" if none
    clock,            \* the orchestrator's Clock: <<>> or <<[boot_time, offset]>>
    awake_until,      \* deadline of Timer::after(AWAKE_PERIOD)
    wakeup_timer,     \* interval of the TimerWakeupSource of the deep sleep
    wifi_pc,          \* where the WiFi connection task stands
    stop_wifi,        \* STOP_WIFI_SIGNAL is signalled
    channel_init,     \* CHANNEL.init(Channel::new()) was executed
    channel,          \* the readings queued in CHANNEL, oldest first
    sensor_pc,        \* where sample_task stands
    sensor_clock,     \* the clone of the Clock owned by sample_task
    sensor_timer,     \* deadline of the Timer sample_task waits for
    cycle_now,        \* `now` taken by sample_and_send in this cycle
    reading,          \* the reading whose send is suspended: <<>> or <<r>>
    sensor_health,    \* the sensor on the bus: "healthy", "bus_error", "incomplete"
    display_pc,       \* where update_task stands
    display_now,      \* `now` of the reading update_task is reporting
    report_result,    \* what report() returned last: "none", "Ok", "Display"
    init_result,      \* what display.initialize() returned: "none", "Ok", "Err"
    \* ---- SpecDriver: a Display and the panel it drives --------------------
    flavour,          \* "async" (async.rs) or "blocking" (blocking.rs)
    individual_writes,\* Display::individual_writes, async.rs:57-58
    target_linux,     \* cfg!(target_os = "linux") of the build
    dc,               \* level of the DC pin: "unset", "low" or "high"
    rst,              \* level of the RST pin: "unset", "low" or "high"
    busy,             \* level of the BUSY pin, driven by the panel
    drv_op,           \* the operation called last, "none" before any
    drv_frame,        \* the planes handed to draw_buffer, <<>> otherwise
    drv_step,         \* index of the step of the operation being executed
    drv_phase,        \* within send_command / send_data: "start" or "write"
    drv_off,          \* within write: number of spi.write calls that returned
    drv_result,       \* "none", "running", "Ok", "Spi", "Digital" or "panic"
    drv_calls,        \* number of operations called so far
    trace,            \* the steps the operation completed, in order
    wire,             \* the spi.write calls of the operation, in order
    \* ---- bookkeeping of the checks ----------------------------------------
    events,           \* the orchestrator's steps in this session, in order
    sent,             \* readings whose send completed in this session
    received,         \* readings received in this session
    clock_built,      \* arguments of the Clock::new call that built `clock`, and
                      \* the save that preceded it
    saved,            \* the clock of the last save_to_rtc_memory call: the wall
                      \* time it was built with, the seconds it counted and the
                      \* ticks that elapsed since then, its offset
    faulty_sessions,  \* number of sessions so far in which the sensor was faulty
    sources,          \* where each session so far took its clock from, in order:
                      \* "rtc" (the retained memory) or "server"
    appended          \* every reading ever written to HISTORY, in order

roundVars == <<round_now, round_period, round_then, round_wait, round_pc, round_calls>>
bufferVars == <<buffer, drawn, draws, painted>>
historyVars == <<history, appended>>
retainedVars == <<BOOT_TIME, BOOT_COUNT>>
mainVars == <<main_pc, main_error, clock, awake_until, wakeup_timer, events>>
wifiVars == <<wifi_pc, stop_wifi>>
channelVars == <<channel_init, channel, sent, received>>
sensorVars == <<sensor_pc, sensor_clock, sensor_timer, cycle_now, reading, sensor_health>>
displayVars == <<display_pc, display_now, report_result, init_result>>
clockLogVars == <<clock_built, saved, faulty_sessions, sources>>
systemVars == <<retainedVars, uptime, mainVars, wifiVars, channelVars, sensorVars,
                displayVars, clockLogVars>>
driverVars == <<flavour, individual_writes, target_linux, dc, rst, busy, drv_op,
                drv_frame, drv_step, drv_phase, drv_off, drv_result, drv_calls, trace,
                wire>>
vars == <<roundVars, bufferVars, historyVars, systemVars, driverVars>>

(***************************************************************************)
(* Bounds of the model                                                     *)
(***************************************************************************)
\* Ticks per second of the time driver (a build-time setting of embassy_time).
TICK_HZ == 100
\* SpecRound: instants 0..MaxRoundEpoch seconds are tried, and the examples.
MaxRoundEpoch == 125
\* SpecRound: consecutive calls, each made at the instant the previous targeted.
MaxRoundCalls == 3
\* SpecHistory: number of appends.
MaxAppends == 200
\* SpecBuffer: the panel is BufferWidth x BufferHeight pixels (the firmware's
\* Epd1in54Buffer is Buffer<200, 200, 5000>; the type is generic in its size).
BufferWidth == 4
BufferHeight == 3
\* SpecBuffer: number of draw_iter calls on one buffer.
MaxDraws == 3
\* Spec: number of boots (power-on sessions).
MaxBoots == 2
\* Spec: while the clock is synchronized on a cold boot, time passes in steps
\* of SyncStepMillis milliseconds, up to MaxSyncSecs seconds.
SyncStepMillis == 3500
MaxSyncSecs == 7
\* Spec: once in a cycle of the sensor task, StallSecs seconds may pass while
\* the task awaits the sensor or room in the channel.
StallSecs == 59
\* Spec: number of sessions of one run in which the sensor is faulty.
MaxFaultySessions == 1
\* Spec: the random number generator returns u32::MAX * k / RngResolution
\* for k in 0 .. RngResolution.
RngResolution == 1
\* Spec: the last second an OffsetDateTime can hold (9999-12-31T23:59:59 in
\* the time crate), scaled down to two days so that it can be reached.
MaxUnixTimestamp == 172799

\* SpecDriver: a plane of the panel is PanelBytes bytes (HEIGHT * LINEWIDTH,
\* 5000 in the driver) and one SPI transfer on Linux carries MaxTransfer
\* bytes (4096 in the driver): a plane takes more than one transfer.
PanelBytes == 3
MaxTransfer == 2
\* SpecDriver: number of operations called on one Display.
MaxDriverCalls == 3

(***************************************************************************)
(* embassy_time::Duration                                                  *)
(***************************************************************************)
FromSecs(secs) == secs * TICK_HZ

FromMillis(millis) == (millis * TICK_HZ) \div 1000

AsSecs(ticks) == ticks \div TICK_HZ

(***************************************************************************)
(* clock.rs: rounded wakeups                                               *)
(***************************************************************************)
\* A slip that rounds the current instant down instead of the next one.
next_rounded_wakeup_down(now, period) ==
    FromSecs((AsSecs(now) \div AsSecs(period)) * AsSecs(period))

\* A slip that rounds the current instant up, and so returns it unchanged
\* when it is on a boundary.
next_rounded_wakeup_ceil(now, period) ==
    FromSecs(((AsSecs(now) + AsSecs(period) - 1) \div AsSecs(period)) * AsSecs(period))

next_rounded_wakeup(now, period) ==
    LET then == now + period
    IN  FromSecs((AsSecs(then) \div AsSecs(period)) * AsSecs(period))

\* A slip that rounds from one period ahead, and so skips a boundary.
duration_to_second_rounded_wakeup(now, period) ==
    LET then == next_rounded_wakeup(now + period, period)
    IN  then - now

\* duration_to_next_rounded_wakeup(now, period), clock.rs:135-138
duration_to_next_rounded_wakeup(now, period) ==
    LET then == next_rounded_wakeup(now, period)
    IN  then - now

(***************************************************************************)
(* SpecRound                                                               *)
(***************************************************************************)
\* 09:46:12, the instant of the examples in clock.rs:126-128
ExampleInstant == 9 * 3600 + 46 * 60 + 12

RoundInstants == (0 .. MaxRoundEpoch) \cup {ExampleInstant}

\* whole-second periods, among them 1 minute, 5 minutes and 1 hour
RoundPeriods == {1, 2, 7, 60, 300, 3600}

InitRound ==
    /\ round_now \in {FromSecs(t) : t \in RoundInstants}
    /\ round_period \in {FromSecs(p) : p \in RoundPeriods}
    /\ round_then = 0
    /\ round_wait = 0
    /\ round_pc = "input"
    /\ round_calls = 0

\* duration_to_next_rounded_wakeup(now, period), clock.rs:135-138
RoundCall ==
    /\ round_pc = "input"
    /\ round_then' = next_rounded_wakeup(round_now, round_period)
    /\ round_wait' = duration_to_next_rounded_wakeup(round_now, round_period)
    /\ round_pc' = "done"
    /\ round_calls' = round_calls + 1
    /\ UNCHANGED <<round_now, round_period>>

\* Timer::after(wait_interval) elapsed, sensor.rs:69-70: the next call is
\* made at the instant the previous one targeted
RoundWake ==
    /\ round_pc = "done"
    /\ round_calls < MaxRoundCalls
    /\ round_now' = round_now + round_wait
    /\ round_pc' = "input"
    /\ UNCHANGED <<round_period, round_then, round_wait, round_calls>>

(***************************************************************************)
(* heapless::HistoryBuffer<Reading, 96>, as used for HISTORY               *)
(***************************************************************************)
HISTORY_CAPACITY == 96

Uninit == [uninit |-> TRUE]

\* HistoryBuffer::new(), main.rs:169-170
HistoryNew ==
    [data |-> [i \in 0 .. (HISTORY_CAPACITY - 1) |-> Uninit],
     write_at |-> 0,
     filled |-> FALSE]

\* A slip that refuses the write when the buffer is full instead of
\* overwriting the oldest entry.
HistoryWriteUntilFull(h, t) ==
    IF h.filled
    THEN h
    ELSE [data |-> [h.data EXCEPT ![h.write_at] = t],
          write_at |-> (h.write_at + 1) % HISTORY_CAPACITY,
          filled |-> (h.write_at + 1 = HISTORY_CAPACITY)]

\* history.write(t), display.rs:72
HistoryWrite(h, t) ==
    LET next == h.write_at + 1
    IN  [data |-> [h.data EXCEPT ![h.write_at] = t],
         write_at |-> IF next = HISTORY_CAPACITY THEN 0 ELSE next,
         filled |-> (h.filled \/ next = HISTORY_CAPACITY)]

\* history.len(), main.rs:227
HistoryLen(h) == IF h.filled THEN HISTORY_CAPACITY ELSE h.write_at

\* history.recent(), display.rs:95: the last written entry, or none
HistoryRecent(h) ==
    IF h.write_at = 0
    THEN IF h.filled THEN <<h.data[HISTORY_CAPACITY - 1]>> ELSE <<>>
    ELSE <<h.data[h.write_at - 1]>>

\* the retained entries from the oldest to the most recent
HistoryOldestOrdered(h) ==
    IF h.filled
    THEN [i \in 1 .. HISTORY_CAPACITY |->
            h.data[(h.write_at + i - 1) % HISTORY_CAPACITY]]
    ELSE [i \in 1 .. h.write_at |-> h.data[i - 1]]

(***************************************************************************)
(* SpecHistory                                                             *)
(***************************************************************************)
InitHistory ==
    /\ history = HistoryNew
    /\ appended = <<>>

\* one pass of the loop of update_task, display.rs:67-72, for its effect on
\* HISTORY: the reading received is written to the history
HistoryAppend ==
    /\ Len(appended) < MaxAppends
    /\ LET r == [time |-> ExampleInstant + 60 * Len(appended),
                       sample |-> "sample"]
       IN  /\ history' = HistoryWrite(history, r)
           /\ appended' = Append(appended, r)

(***************************************************************************)
(* buffer.rs: the two-plane frame buffer                                   *)
(***************************************************************************)
\* BYTE_SIZE, "the screen size in bytes (width x height / 8)", buffer.rs:51-52
BYTE_SIZE == (BufferWidth * BufferHeight + 7) \div 8

Rotations == {"Rotate0", "Rotate90", "Rotate180", "Rotate270"}

Colors == {"Black", "Chromatic", "White", "Transparent"}

\* u8 arithmetic
BitOf(byte, i) == (byte \div (2 ^ i)) % 2

And8(a, b) ==
    LET f[i \in 0 .. 8] ==
            IF i = 8 THEN 0 ELSE BitOf(a, i) * BitOf(b, i) * (2 ^ i) + f[i + 1]
    IN  f[0]

Or8(a, b) ==
    LET f[i \in 0 .. 8] ==
            IF i = 8 THEN 0
            ELSE (IF BitOf(a, i) + BitOf(b, i) > 0 THEN 2 ^ i ELSE 0) + f[i + 1]
    IN  f[0]

Not8(a) == 255 - a

Shl8(a, n) == (a * (2 ^ n)) % 256

\* Buffer::new(), buffer.rs:70-76
BufferNew ==
    [rotation |-> "Rotate0",
     black |-> [i \in 0 .. (BYTE_SIZE - 1) |-> 255],
     chromatic |-> [i \in 0 .. (BYTE_SIZE - 1) |-> 255]]

\* A slip that leaves out the width of a row.
get_bit_index_unscaled(x, y) == x + y

\* get_bit_index, buffer.rs:160-162
get_bit_index(x, y) == x + y * BufferWidth

\* get_index_and_offset_from_bit_index, buffer.rs:165-169
get_index_and_offset_from_bit_index(bit_index) ==
    [index |-> bit_index \div 8, offset |-> bit_index % 8]

\* get_index_and_offset, buffer.rs:153-156
get_index_and_offset(x, y) ==
    get_index_and_offset_from_bit_index(get_bit_index(x, y))

\* the filter of draw_iter, buffer.rs:117-119
InBounds(pixel) ==
    /\ pixel.x >= 0
    /\ pixel.x < BufferWidth
    /\ pixel.y >= 0
    /\ pixel.y < BufferHeight

\* A slip in which Black also clears the chromatic plane.
DrawPixelBlackBoth(buf, pixel) ==
    LET at == get_index_and_offset(pixel.x, pixel.y)
        mask == Shl8(1, 8 - at.offset - 1)
    IN  IF pixel.color = "Transparent" \/ at.index >= BYTE_SIZE
        THEN buf
        ELSE IF pixel.color = "White"
        THEN [buf EXCEPT !.black[at.index] = Or8(@, mask),
                         !.chromatic[at.index] = Or8(@, mask)]
        ELSE IF pixel.color = "Black"
        THEN [buf EXCEPT !.black[at.index] = And8(@, Not8(mask)),
                         !.chromatic[at.index] = And8(@, Not8(mask))]
        ELSE [buf EXCEPT !.chromatic[at.index] = And8(@, Not8(mask))]

\* the body of the loop of draw_iter for one pixel that passed the filter,
\* buffer.rs:121-146
DrawPixel(buf, pixel) ==
    LET at == get_index_and_offset(pixel.x, pixel.y)
    IN  IF at.index >= BYTE_SIZE \/ at.offset >= 8
        THEN buf
        ELSE LET offset == 8 - at.offset - 1
                 mask == Shl8(1, offset)
                 reverse_mask == Not8(mask)
             IN  CASE pixel.color = "Black" ->
                        [buf EXCEPT !.black[at.index] =
                            Or8(And8(@, reverse_mask), Shl8(0, offset))]
                   [] pixel.color = "Chromatic" ->
                        [buf EXCEPT !.chromatic[at.index] =
                            Or8(And8(@, reverse_mask), Shl8(0, offset))]
                   [] pixel.color = "White" ->
                        [buf EXCEPT !.black[at.index] =
                            Or8(And8(@, reverse_mask), Shl8(1, offset)),
                                    !.chromatic[at.index] =
                            Or8(And8(@, reverse_mask), Shl8(1, offset))]
                   [] pixel.color = "Transparent" -> buf

\* draw_iter, buffer.rs:112-149: the pixels in bounds are drawn in order
RECURSIVE DrawIter(_, _)
DrawIter(buf, pixels) ==
    IF pixels = <<>>
    THEN buf
    ELSE DrawIter(IF InBounds(Head(pixels)) THEN DrawPixel(buf, Head(pixels)) ELSE buf,
                  Tail(pixels))

\* the bit of a plane that shows pixel (x, y)
PlaneBit(plane, x, y) ==
    LET at == get_index_and_offset(x, y)
    IN  BitOf(plane[at.index], 7 - at.offset)

(***************************************************************************)
(* SpecBuffer                                                              *)
(***************************************************************************)
\* the pixels a caller may hand to draw_iter: every pixel of the panel and the
\* ring of pixels just outside it, in every colour
Pixels ==
    [x : -1 .. BufferWidth, y : -1 .. BufferHeight, color : Colors]

InitBuffer ==
    /\ buffer = BufferNew
    /\ drawn = <<>>
    /\ draws = 0
    /\ painted = [at \in (0 .. BufferWidth - 1) \X (0 .. BufferHeight - 1) |-> "none"]

\* buffer.draw_iter(pixels) with one pixel
Draw ==
    /\ draws < MaxDraws
    /\ \E pixel \in Pixels :
        /\ buffer' = DrawIter(buffer, <<pixel>>)
        /\ drawn' = <<pixel>>
        /\ painted' = IF InBounds(pixel) /\ pixel.color # "Transparent"
                      THEN [painted EXCEPT ![<<pixel.x, pixel.y>>] = pixel.color]
                      ELSE painted
    /\ draws' = draws + 1

\* buffer.set_rotation(rotation), buffer.rs:91-93
SetRotation ==
    /\ \E rotation \in Rotations \ {buffer.rotation} :
        buffer' = [buffer EXCEPT !.rotation = rotation]
    /\ drawn' = <<>>
    /\ UNCHANGED <<draws, painted>>

(***************************************************************************)
(* main.rs: constants                                                      *)
(***************************************************************************)
SAMPLING_PERIOD == FromSecs(60)

DEEP_SLEEP_DURATION == FromSecs(300)

AWAKE_PERIOD == FromSecs(300)

\* Channel<NoopRawMutex, Reading, 3>
CHANNEL_CAPACITY == 3

\* sensor.rs:39
WARMUP_INTERVAL == FromMillis(10)

(***************************************************************************)
(* clock.rs: Clock                                                         *)
(***************************************************************************)
\* A slip that subtracts the wall time from the uptime.
ClockNewSwapped(current_time, offset, now) ==
    LET from_boot == AsSecs(now)
    IN  [boot_time |-> from_boot - current_time, offset |-> offset]

\* Clock::new, clock.rs:43-48
ClockNew(current_time, offset, now) ==
    LET from_boot == AsSecs(now)
    IN  [boot_time |-> current_time - from_boot, offset |-> offset]

\* A slip that counts the uptime backwards.
NowAsEpochBackwards(c, now) ==
    LET from_boot == AsSecs(now)
    IN  c.boot_time - from_boot

\* Clock::now_as_epoch, clock.rs:118-121
NowAsEpoch(c, now) ==
    LET from_boot == AsSecs(now)
    IN  c.boot_time + from_boot

\* Clock::now, clock.rs:51-59: the instant must be one an OffsetDateTime can
\* hold, in UTC and in the clock's offset
ClockNow(c, now) ==
    LET epoch == NowAsEpoch(c, now)
    IN  IF epoch > MaxUnixTimestamp
        THEN [ok |-> FALSE, error |-> "TimeComponentRange", time |-> 0]
        ELSE IF epoch + c.offset > MaxUnixTimestamp
        THEN [ok |-> FALSE, error |-> "InvalidInOffset", time |-> 0]
        ELSE [ok |-> TRUE, error |-> "none", time |-> epoch]

\* UtcOffset::from_whole_seconds(offset_in_seconds).ok(), clock.rs:86
UtcOffsetFromWholeSeconds(offset_in_seconds) ==
    IF offset_in_seconds \in -93599 .. 93599 THEN <<offset_in_seconds>> ELSE <<>>

\* A slip that does not test the sentinel.
FromRtcMemoryNoSentinel(boot, now) ==
    <<ClockNew(boot.epoch, boot.offset, now)>>

\* A slip that never finds a retained clock, so that every boot synchronizes.
FromRtcMemoryNever(boot, now) == <<>>

\* Clock::from_rtc_memory, clock.rs:82-93: <<>> is None
FromRtcMemory(boot, now) ==
    LET offset == UtcOffsetFromWholeSeconds(boot.offset)
    IN  IF boot.epoch = 0
        THEN <<>>
        ELSE IF offset = <<>> THEN <<>> ELSE <<ClockNew(boot.epoch, offset[1], now)>>

\* A slip that persists the current time without the sleep that follows.
SaveToRtcMemoryNoSleep(c, expected_sleep_duration, now) ==
    [epoch |-> NowAsEpoch(c, now), offset |-> c.offset]

\* A slip that stores the instant of the boot instead of the current one.
SaveToRtcMemoryOfBoot(c, expected_sleep_duration, now) ==
    [epoch |-> c.boot_time, offset |-> c.offset]

\* Clock::save_to_rtc_memory, clock.rs:96-105: the new value of BOOT_TIME
SaveToRtcMemory(c, expected_sleep_duration, now) ==
    LET then == NowAsEpoch(c, now) + AsSecs(expected_sleep_duration)
    IN  [epoch |-> then, offset |-> c.offset]

\* A slip that rounds the current instant up: called exactly on a boundary it
\* targets that same boundary again.
ClockDurationToSameRoundedWakeup(c, period, now) ==
    LET epoch == FromSecs(NowAsEpoch(c, now))
    IN  next_rounded_wakeup_ceil(epoch, period) - epoch

\* Clock::duration_to_next_rounded_wakeup, clock.rs:112-115
ClockDurationToNextRoundedWakeup(c, period, now) ==
    LET epoch == FromSecs(NowAsEpoch(c, now))
    IN  duration_to_next_rounded_wakeup(epoch, period)

(***************************************************************************)
(* domain.rs: Sample                                                       *)
(* Temperatures are in hundredths of a degree Celsius, humidities in       *)
(* hundredths of a percent, pressures in pascal (hundredths of a hPa).     *)
(***************************************************************************)
\* what the sensor measures when it works; outside every fallback range
MeasuredTemperature == 3512
MeasuredHumidity == 1250
MeasuredPressure == 102500

\* the values read_sample() can return, sensor.rs:85-87: a bus error, or a
\* Bme280Sample whose measurements are each present (<<v>>) or absent (<<>>)
SensorResults ==
    {[ok |-> FALSE, temperature |-> <<>>, humidity |-> <<>>, pressure |-> <<>>]}
    \cup [ok : {TRUE},
          temperature : {<<>>, <<MeasuredTemperature>>},
          humidity : {<<>>, <<MeasuredHumidity>>},
          pressure : {<<>>, <<MeasuredPressure>>}]

IsComplete(result) ==
    result.temperature # <<>> /\ result.humidity # <<>> /\ result.pressure # <<>>

\* what a sensor returns: a healthy one every measurement, one that is absent
\* from the bus an error, one that is not measuring a sample that lacks
\* measurements
SensorReads(health) ==
    {result \in SensorResults :
        CASE health = "healthy" -> result.ok /\ IsComplete(result)
          [] health = "bus_error" -> ~result.ok
          [] health = "incomplete" -> result.ok /\ ~IsComplete(result)}

\* the three values of rng.random() of one sample, each as its numerator
\* over RngResolution; the three are tried at the same height
RngDraws == {<<k, k, k>> : k \in 0 .. RngResolution}

\* Sample::random, domain.rs:35-52: seed = random / u32::MAX, then
\* seed * (high - low) + low
SampleRandom(seeds) ==
    [temperature |-> (seeds[1] * (3000 - 1500)) \div RngResolution + 1500,
     humidity |-> (seeds[2] * (8000 - 2000)) \div RngResolution + 2000,
     pressure |-> (seeds[3] * (101000 - 99000)) \div RngResolution + 99000]

\* TryFrom<Bme280Sample> for Sample, domain.rs:67-77
SampleTryFrom(sample) ==
    IF sample.temperature = <<>> \/ sample.humidity = <<>> \/ sample.pressure = <<>>
    THEN [ok |-> FALSE, error |-> "MissingMeasurement", sample |-> <<>>]
    ELSE [ok |-> TRUE, error |-> "none",
          sample |-> <<[temperature |-> sample.temperature[1],
                        humidity |-> sample.humidity[1],
                        pressure |-> sample.pressure[1]]>>]

\* A slip that skips the fallback and keeps what was measured, zero where a
\* measurement is absent.
SampleOfNoFallback(result, seeds) ==
    [temperature |-> IF result.temperature = <<>> THEN 0 ELSE result.temperature[1],
     humidity |-> IF result.humidity = <<>> THEN 0 ELSE result.humidity[1],
     pressure |-> IF result.pressure = <<>> THEN 0 ELSE result.pressure[1]]

\* sample_result ... unwrap_or_else(random), sensor.rs:85-95
SampleOf(result, seeds) ==
    IF result.ok /\ SampleTryFrom(result).ok
    THEN SampleTryFrom(result).sample[1]
    ELSE SampleRandom(seeds)

(***************************************************************************)
(* The time source: fetch_current_time, adafruitio.rs:27-36                *)
(***************************************************************************)
\* the instants the server may answer with (always in UTC)
ServerTimes == {ExampleInstant, MaxUnixTimestamp - 100}

FetchResults ==
    {[ok |-> FALSE, time |-> 0]} \cup [ok : {TRUE}, time : ServerTimes]

(***************************************************************************)
(* Scheduling                                                              *)
(* The executor is cooperative: a task runs from one await to the next     *)
(* without interruption, and that takes no time at the resolution of the   *)
(* clock.  Time passes only while every task is suspended.                 *)
(***************************************************************************)
\* main is suspended at an await, or has returned
MainSuspended == main_pc \in {"connect", "fetch", "awake", "returned"}

\* the deadlines of the timers that are being awaited
Deadlines ==
    (IF main_pc = "awake" THEN {awake_until} ELSE {})
    \cup (IF sensor_pc \in {"warmup", "wait"} THEN {sensor_timer} ELSE {})

\* a task can run now; the executor polls every such task before it waits
\* for an interrupt, so what is awaited from outside completes after them
Runnable ==
    \/ main_pc \in {"boot", "clock", "display", "persist"}
    \/ \E deadline \in Deadlines : uptime >= deadline
    \/ sensor_pc = "send" /\ Len(channel) < CHANNEL_CAPACITY
    \/ display_pc = "receive" /\ channel # <<>>
    \/ wifi_pc = "connected" /\ stop_wifi
    \/ main_pc = "connect" /\ wifi_pc = "connected"

\* every task is suspended: the executor waits for an interrupt
Idle == MainSuspended /\ ~Runnable

Min(S) == CHOOSE x \in S : \A y \in S : x <= y

\* sample_and_send, sensor.rs:85-98: the time that may pass while the task
\* awaits read_sample() or room in the channel, once in a cycle and not
\* beyond a deadline
StallSteps ==
    LET stall == FromSecs(StallSecs)
    IN  IF /\ sensor_pc \in {"read", "send"}
           /\ NowAsEpoch(sensor_clock[1], uptime) = cycle_now
           /\ \A deadline \in Deadlines : uptime + stall <= deadline
        THEN {stall}
        ELSE {}

\* the amounts of time that may pass in one step: up to the next deadline, or,
\* while the network is awaited, one step, or one stall of the sensor task
TickSteps ==
    LET step == FromMillis(SyncStepMillis)
    IN  (IF Deadlines = {} THEN {} ELSE {Min(Deadlines) - uptime})
        \cup (IF main_pc \in {"connect", "fetch"} /\ uptime + step <= FromSecs(MaxSyncSecs)
              THEN {step}
              ELSE {})
        \cup StallSteps

Tick ==
    /\ Idle
    /\ \E d \in TickSteps : uptime' = uptime + d
    /\ UNCHANGED <<retainedVars, mainVars, wifiVars, channelVars, sensorVars,
                   displayVars, clockLogVars, historyVars>>

(***************************************************************************)
(* main.rs: the orchestrator                                               *)
(***************************************************************************)
\* A slip that powers down when main_fallible returned an error.
MainReturnsToSleep(error) ==
    /\ main_pc' = "asleep"
    /\ main_error' = error

\* main_fallible returns the error (those of the clock wrapped in Error::Clock)
\* and main logs it, main.rs:193-195; the tasks already spawned go on
MainReturns(error) ==
    /\ main_pc' = "returned"
    /\ main_error' = error

\* main, main.rs:174-196, and main_fallible up to the first await of
\* load_clock, main.rs:203-219 and 266-283
MainBoot ==
    /\ main_pc = "boot"
    /\ BOOT_COUNT' = BOOT_COUNT + 1
    /\ LET rtc == FromRtcMemory(BOOT_TIME, uptime)
       IN  IF rtc # <<>>
           THEN /\ clock' = rtc
                /\ clock_built' = [source |-> "rtc", wall |-> BOOT_TIME.epoch, at |-> uptime,
                                    prior |-> saved]
                /\ sources' = Append(sources, "rtc")
                /\ events' = Append(events, "clock")
                /\ main_pc' = "clock"
                /\ UNCHANGED <<main_error, wifi_pc>>
           ELSE /\ \E outcome \in {"ok", "ParseCredentials", "Wifi"} :
                     IF outcome = "ok"
                     THEN /\ wifi_pc' = "start"
                          /\ main_pc' = "connect"
                          /\ UNCHANGED main_error
                     ELSE /\ MainReturns(outcome)
                          /\ UNCHANGED wifi_pc
                /\ UNCHANGED <<clock, clock_built, events, sources>>
    /\ UNCHANGED <<BOOT_TIME, uptime, awake_until, wakeup_timer, stop_wifi, channelVars,
                   sensorVars, displayVars, saved, faulty_sessions, historyVars>>

\* connect, wifi.rs:95-112: the link is up and an address was obtained;
\* load_clock goes on to fetch the time, main.rs:285-287
MainLinkUp ==
    /\ main_pc = "connect"
    /\ wifi_pc = "connected"
    /\ main_pc' = "fetch"
    /\ UNCHANGED <<retainedVars, uptime, main_error, clock, awake_until, wakeup_timer,
                   events, wifiVars, channelVars, sensorVars, displayVars, clockLogVars,
                   historyVars>>

\* A slip in which a failed synchronization falls back to a clock set to the
\* epoch and the boot goes on.
MainFetchDoneDefaulting ==
    /\ main_pc = "fetch"
    /\ Idle
    /\ \E result \in FetchResults :
        /\ clock' = <<ClockNew(result.time, 0, uptime)>>
        /\ clock_built' = [source |-> "server", wall |-> result.time, at |-> uptime,
                                 prior |-> saved]
        /\ main_error' = IF result.ok THEN main_error ELSE "Synchronization"
    /\ sources' = Append(sources, "server")
    /\ stop_wifi' = TRUE
    /\ events' = Append(events, "clock")
    /\ main_pc' = "clock"
    /\ UNCHANGED <<retainedVars, uptime, awake_until, wakeup_timer, wifi_pc, channelVars,
                   sensorVars, displayVars, saved, faulty_sessions, historyVars>>

\* Clock::from_server, clock.rs:62-79, and the rest of load_clock,
\* main.rs:287-295
MainFetchDone ==
    /\ main_pc = "fetch"
    /\ Idle
    /\ \E result \in FetchResults :
        IF result.ok
        THEN /\ clock' = <<ClockNew(result.time, 0, uptime)>>
             /\ clock_built' = [source |-> "server", wall |-> result.time, at |-> uptime,
                                 prior |-> saved]
             /\ sources' = Append(sources, "server")
             /\ stop_wifi' = TRUE
             /\ events' = Append(events, "clock")
             /\ main_pc' = "clock"
             /\ UNCHANGED main_error
        ELSE /\ MainReturns("Synchronization")
             /\ UNCHANGED <<clock, clock_built, stop_wifi, events, sources>>
    /\ UNCHANGED <<retainedVars, uptime, awake_until, wakeup_timer, wifi_pc, channelVars,
                   sensorVars, displayVars, saved, faulty_sessions, historyVars>>

\* A slip in which the orchestrator empties the history before it hands it
\* to the display task.
MainSetupDisplayClearing ==
    /\ main_pc = "clock"
    /\ IF ~ClockNow(clock[1], uptime).ok
       THEN /\ MainReturns(ClockNow(clock[1], uptime).error)
            /\ UNCHANGED <<channel_init, channel, display_pc, events>>
       ELSE \E outcome \in {"ok", "SpiConfig", "DmaBuffer"} :
                IF outcome = "ok"
                THEN /\ channel_init' = TRUE
                     /\ channel' = <<>>
                     /\ display_pc' = "init"
                     /\ events' = events \o <<"channel", "display">>
                     /\ main_pc' = "display"
                     /\ UNCHANGED main_error
                ELSE /\ MainReturns(outcome)
                     /\ UNCHANGED <<channel_init, channel, display_pc, events>>
    /\ UNCHANGED <<retainedVars, uptime, clock, awake_until, wakeup_timer, wifiVars,
                   sent, received, sensorVars, display_now, report_result, init_result,
                   clockLogVars,
                   appended>>
    /\ history' = HistoryNew

\* main_fallible, main.rs:221-243, with setup_display_task, main.rs:326-376
MainSetupDisplay ==
    /\ main_pc = "clock"
    /\ IF ~ClockNow(clock[1], uptime).ok
       THEN /\ MainReturns(ClockNow(clock[1], uptime).error)
            /\ UNCHANGED <<channel_init, channel, display_pc, events>>
       ELSE \E outcome \in {"ok", "SpiConfig", "DmaBuffer"} :
                IF outcome = "ok"
                THEN /\ channel_init' = TRUE
                     /\ channel' = <<>>
                     /\ display_pc' = "init"
                     /\ events' = events \o <<"channel", "display">>
                     /\ main_pc' = "display"
                     /\ UNCHANGED main_error
                ELSE /\ MainReturns(outcome)
                     /\ UNCHANGED <<channel_init, channel, display_pc, events>>
    /\ UNCHANGED <<retainedVars, uptime, clock, awake_until, wakeup_timer, wifiVars,
                   sent, received, sensorVars, display_now, report_result, init_result,
                   clockLogVars,
                   historyVars>>

\* main_fallible, main.rs:245-259, with setup_sensor_task, main.rs:394-416
MainSetupSensor ==
    /\ main_pc = "display"
    /\ \E outcome \in {"ok", "I2cConfig"} :
        IF outcome = "ok"
        THEN /\ sensor_pc' = "init"
             /\ sensor_clock' = clock
             /\ \E health \in {"healthy", "bus_error", "incomplete"} :
                    /\ health # "healthy" => faulty_sessions < MaxFaultySessions
                    /\ sensor_health' = health
                    /\ faulty_sessions' =
                        IF health = "healthy" THEN faulty_sessions ELSE faulty_sessions + 1
             /\ awake_until' = uptime + AWAKE_PERIOD
             /\ events' = Append(events, "sensor")
             /\ main_pc' = "awake"
             /\ UNCHANGED main_error
        ELSE /\ MainReturns(outcome)
             /\ UNCHANGED <<sensor_pc, sensor_clock, sensor_health, faulty_sessions,
                            awake_until, events>>
    /\ UNCHANGED <<retainedVars, uptime, clock, wakeup_timer, wifiVars, channelVars,
                   sensor_timer, cycle_now, reading, displayVars, clock_built, saved,
                   sources, historyVars>>

\* A slip that does not wait for the awake period.
MainPersistEarly ==
    /\ main_pc = "awake"
    /\ BOOT_TIME' = SaveToRtcMemory(clock[1], DEEP_SLEEP_DURATION, uptime)
    /\ saved' = [wall |-> clock_built.wall,
                 counted |-> AsSecs(uptime) - AsSecs(clock_built.at),
                 elapsed |-> uptime - clock_built.at,
                 offset |-> clock[1].offset]
    /\ events' = events \o <<"awake_elapsed", "persist">>
    /\ main_pc' = "persist"
    /\ UNCHANGED <<BOOT_COUNT, uptime, main_error, clock, awake_until, wakeup_timer,
                   wifiVars, channelVars, sensorVars, displayVars, clock_built,
                   faulty_sessions, sources, historyVars>>

\* A slip that waits until the display task took every reading sent.
MainPersistWhenDrained ==
    /\ main_pc = "awake"
    /\ uptime >= awake_until
    /\ channel = <<>> /\ sensor_pc # "send"
    /\ BOOT_TIME' = SaveToRtcMemory(clock[1], DEEP_SLEEP_DURATION, uptime)
    /\ saved' = [wall |-> clock_built.wall,
                 counted |-> AsSecs(uptime) - AsSecs(clock_built.at),
                 elapsed |-> uptime - clock_built.at,
                 offset |-> clock[1].offset]
    /\ events' = events \o <<"awake_elapsed", "persist">>
    /\ main_pc' = "persist"
    /\ UNCHANGED <<BOOT_COUNT, uptime, main_error, clock, awake_until, wakeup_timer,
                   wifiVars, channelVars, sensorVars, displayVars, clock_built,
                   faulty_sessions, sources, historyVars>>

\* main_fallible, main.rs:259-261: the awake period is over and the clock is
\* persisted
MainPersist ==
    /\ main_pc = "awake"
    /\ uptime >= awake_until
    /\ BOOT_TIME' = SaveToRtcMemory(clock[1], DEEP_SLEEP_DURATION, uptime)
    /\ saved' = [wall |-> clock_built.wall,
                 counted |-> AsSecs(uptime) - AsSecs(clock_built.at),
                 elapsed |-> uptime - clock_built.at,
                 offset |-> clock[1].offset]
    /\ events' = events \o <<"awake_elapsed", "persist">>
    /\ main_pc' = "persist"
    /\ UNCHANGED <<BOOT_COUNT, uptime, main_error, clock, awake_until, wakeup_timer,
                   wifiVars, channelVars, sensorVars, displayVars, clock_built,
                   faulty_sessions, sources, historyVars>>

\* A slip that stores the clock a second time on the way to sleep.
MainEnterDeepSleepSavingAgain ==
    /\ main_pc = "persist"
    /\ BOOT_TIME' = SaveToRtcMemory(clock[1], DEEP_SLEEP_DURATION + FromSecs(1), uptime)
    /\ wakeup_timer' = DEEP_SLEEP_DURATION
    /\ events' = Append(events, "sleep")
    /\ main_pc' = "asleep"
    /\ UNCHANGED <<BOOT_COUNT, uptime, main_error, clock, awake_until, wifiVars,
                   channelVars, sensorVars, displayVars, clockLogVars, historyVars>>

\* main_fallible, main.rs:262, and enter_deep, sleep.rs:23-30: everything
\* stops until the wakeup timer restarts the chip
MainEnterDeepSleep ==
    /\ main_pc = "persist"
    /\ wakeup_timer' = DEEP_SLEEP_DURATION
    /\ events' = Append(events, "sleep")
    /\ main_pc' = "asleep"
    /\ UNCHANGED <<retainedVars, uptime, main_error, clock, awake_until, wifiVars,
                   channelVars, sensorVars, displayVars, clockLogVars, historyVars>>

\* the state of a session at power-on: everything but the RTC fast memory is
\* initialized anew
SessionStart ==
    /\ uptime = 0
    /\ main_pc = "boot"
    /\ main_error = "none"
    /\ clock = <<>>
    /\ awake_until = 0
    /\ wakeup_timer = 0
    /\ wifi_pc = "off"
    /\ stop_wifi = FALSE
    /\ channel_init = FALSE
    /\ channel = <<>>
    /\ sensor_pc = "unspawned"
    /\ sensor_clock = <<>>
    /\ sensor_timer = 0
    /\ cycle_now = 0
    /\ reading = <<>>
    /\ sensor_health = "healthy"
    /\ display_pc = "unspawned"
    /\ display_now = 0
    /\ report_result = "none"
    /\ init_result = "none"
    /\ events = <<>>
    /\ sent = <<>>
    /\ received = <<>>
    /\ clock_built = [source |-> "none", wall |-> 0, at |-> 0, prior |-> saved]

\* the wakeup timer fires: the chip restarts from the boot entry point
Wake ==
    /\ main_pc = "asleep"
    /\ BOOT_COUNT < MaxBoots
    /\ uptime' = 0
    /\ main_pc' = "boot"
    /\ main_error' = "none"
    /\ clock' = <<>>
    /\ awake_until' = 0
    /\ wakeup_timer' = 0
    /\ wifi_pc' = "off"
    /\ stop_wifi' = FALSE
    /\ channel_init' = FALSE
    /\ channel' = <<>>
    /\ sensor_pc' = "unspawned"
    /\ sensor_clock' = <<>>
    /\ sensor_timer' = 0
    /\ cycle_now' = 0
    /\ reading' = <<>>
    /\ sensor_health' = "healthy"
    /\ display_pc' = "unspawned"
    /\ display_now' = 0
    /\ report_result' = "none"
    /\ init_result' = "none"
    /\ events' = <<>>
    /\ sent' = <<>>
    /\ received' = <<>>
    /\ clock_built' = [source |-> "none", wall |-> 0, at |-> 0, prior |-> saved]
    /\ UNCHANGED <<retainedVars, saved, faulty_sessions, sources, historyVars>>

(***************************************************************************)
(* wifi.rs: the connection task                                            *)
(***************************************************************************)
\* connection_fallible, wifi.rs:146-156: the controller is configured and
\* started, or the task leaves with an error
WifiStartController ==
    /\ Idle
    /\ wifi_pc = "start"
    /\ \E ok \in BOOLEAN : wifi_pc' = IF ok THEN "connecting" ELSE "start_failed"
    /\ UNCHANGED <<retainedVars, uptime, mainVars, stop_wifi, channelVars, sensorVars,
                   displayVars, clockLogVars, historyVars>>

\* connection_fallible, wifi.rs:160-165: connect_async succeeded, at the
\* first attempt or after retries
WifiConnected ==
    /\ Idle
    /\ wifi_pc = "connecting"
    /\ wifi_pc' = "connected"
    /\ UNCHANGED <<retainedVars, uptime, mainVars, stop_wifi, channelVars, sensorVars,
                   displayVars, clockLogVars, historyVars>>

\* connection_fallible, wifi.rs:165-167: the stop signal is received
WifiStopRequested ==
    /\ MainSuspended
    /\ wifi_pc = "connected"
    /\ stop_wifi
    /\ stop_wifi' = FALSE
    /\ wifi_pc' = "stopping"
    /\ UNCHANGED <<retainedVars, uptime, mainVars, channelVars, sensorVars, displayVars,
                   clockLogVars, historyVars>>

\* connection_fallible, wifi.rs:167-178: stop_async returned
WifiStopDone ==
    /\ Idle
    /\ wifi_pc = "stopping"
    /\ \E ok \in BOOLEAN : wifi_pc' = IF ok THEN "left" ELSE "stop_failed"
    /\ UNCHANGED <<retainedVars, uptime, mainVars, stop_wifi, channelVars, sensorVars,
                   displayVars, clockLogVars, historyVars>>

(***************************************************************************)
(* embassy_sync::channel::Channel<_, Reading, 3>, as used for CHANNEL      *)
(***************************************************************************)
\* A slip in which a send never waits.
ChannelHasRoomAlways(queue) == TRUE

\* sender.send(reading).await completes when the queue has room,
\* sensor.rs:97-98
ChannelHasRoom(queue) == Len(queue) < CHANNEL_CAPACITY

(***************************************************************************)
(* sensor.rs: sample_task                                                  *)
(***************************************************************************)
\* the send of sample_and_send completed, sensor.rs:98-100, and sample_task
\* starts the wait for the next rounded wakeup, sensor.rs:68-70
SensorSent(r) ==
    /\ channel' = Append(channel, r)
    /\ sent' = Append(sent, r)
    /\ reading' = <<>>
    /\ sensor_timer' =
        uptime + ClockDurationToNextRoundedWakeup(sensor_clock[1], SAMPLING_PERIOD, uptime)
    /\ sensor_pc' = "wait"

\* A slip that ends the task when initialize() returned an error.
SensorInitDoneFatal ==
    /\ Idle
    /\ sensor_pc = "init"
    /\ IF sensor_health = "bus_error"
       THEN sensor_pc' = "returned" /\ UNCHANGED sensor_timer
       ELSE sensor_pc' = "warmup" /\ sensor_timer' = uptime + WARMUP_INTERVAL
    /\ UNCHANGED <<retainedVars, uptime, mainVars, wifiVars, channelVars, sensor_clock,
                   cycle_now, reading, sensor_health, displayVars, clockLogVars,
                   historyVars>>

\* sample_task, sensor.rs:51-62: initialize() returned, with an error or not,
\* and the warm-up wait starts
SensorInitDone ==
    /\ Idle
    /\ sensor_pc = "init"
    /\ sensor_timer' = uptime + WARMUP_INTERVAL
    /\ sensor_pc' = "warmup"
    /\ UNCHANGED <<retainedVars, uptime, mainVars, wifiVars, channelVars, sensor_clock,
                   cycle_now, reading, sensor_health, displayVars, clockLogVars,
                   historyVars>>

\* A slip that goes on to read the sensor when clock.now() failed.
SensorCycleStartReadingAnyway ==
    /\ MainSuspended
    /\ sensor_pc \in {"warmup", "wait"}
    /\ uptime >= sensor_timer
    /\ cycle_now' = ClockNow(sensor_clock[1], uptime).time
    /\ sensor_pc' = "read"
    /\ UNCHANGED sensor_timer
    /\ UNCHANGED <<retainedVars, uptime, mainVars, wifiVars, channelVars, sensor_clock,
                   reading, sensor_health, displayVars, clockLogVars, historyVars>>

\* the Timer of sample_task elapsed, sensor.rs:62 or 70; sample_and_send
\* takes the time and starts to read the sensor, sensor.rs:81-87, or returns
\* the error of clock.now()
SensorCycleStart ==
    /\ MainSuspended
    /\ sensor_pc \in {"warmup", "wait"}
    /\ uptime >= sensor_timer
    /\ LET now == ClockNow(sensor_clock[1], uptime)
       IN  IF now.ok
           THEN /\ cycle_now' = now.time
                /\ sensor_pc' = "read"
                /\ UNCHANGED sensor_timer
           ELSE /\ sensor_timer' =
                    uptime + ClockDurationToNextRoundedWakeup(sensor_clock[1],
                                                              SAMPLING_PERIOD, uptime)
                /\ sensor_pc' = "wait"
                /\ UNCHANGED cycle_now
    /\ UNCHANGED <<retainedVars, uptime, mainVars, wifiVars, channelVars, sensor_clock,
                   reading, sensor_health, displayVars, clockLogVars, historyVars>>

\* sample_and_send, sensor.rs:85-98: read_sample() returned; the reading is
\* built and sent, which completes at once if the channel has room
SensorReadDone ==
    /\ Idle
    /\ sensor_pc = "read"
    /\ \E result \in SensorReads(sensor_health), seeds \in RngDraws :
        LET r == [time |-> cycle_now, sample |-> SampleOf(result, seeds)]
        IN  IF ChannelHasRoom(channel)
            THEN SensorSent(r)
            ELSE /\ reading' = <<r>>
                 /\ sensor_pc' = "send"
                 /\ UNCHANGED <<channel, sent, sensor_timer>>
    /\ UNCHANGED <<retainedVars, uptime, mainVars, wifiVars, channel_init, received,
                   sensor_clock, cycle_now, sensor_health, displayVars, clockLogVars,
                   historyVars>>

\* sample_and_send, sensor.rs:98: the suspended send completes
SensorSendResume ==
    /\ MainSuspended
    /\ sensor_pc = "send"
    /\ ChannelHasRoom(channel)
    /\ SensorSent(reading[1])
    /\ UNCHANGED <<retainedVars, uptime, mainVars, wifiVars, channel_init, received,
                   sensor_clock, cycle_now, sensor_health, displayVars, clockLogVars,
                   historyVars>>

(***************************************************************************)
(* display.rs: update_task                                                 *)
(***************************************************************************)
\* A slip that enters the loop when initialize() returned an error.
DisplayInitDoneIgnoringError ==
    /\ Idle
    /\ display_pc = "init"
    /\ \E ok \in BOOLEAN : init_result' = IF ok THEN "Ok" ELSE "Err"
    /\ display_pc' = "receive"
    /\ UNCHANGED <<retainedVars, uptime, mainVars, wifiVars, channelVars, sensorVars,
                   display_now, report_result, clockLogVars, historyVars>>

\* update_task, display.rs:58-65: initialize() returned; on an error the
\* task returns
DisplayInitDone ==
    /\ Idle
    /\ display_pc = "init"
    /\ \E ok \in BOOLEAN :
        /\ init_result' = IF ok THEN "Ok" ELSE "Err"
        /\ display_pc' = IF ok THEN "receive" ELSE "exited"
    /\ UNCHANGED <<retainedVars, uptime, mainVars, wifiVars, channelVars, sensorVars,
                   display_now, report_result, clockLogVars, historyVars>>

\* A slip that hands over the newest queued reading instead of the oldest.
DisplayReceiveNewest ==
    /\ MainSuspended
    /\ display_pc = "receive"
    /\ channel # <<>>
    /\ LET r == channel[Len(channel)]
       IN  /\ channel' = SubSeq(channel, 1, Len(channel) - 1)
           /\ received' = Append(received, r)
           /\ history' = HistoryWrite(history, r)
           /\ appended' = Append(appended, r)
           /\ display_now' = HistoryRecent(history')[1].time
    /\ display_pc' = "report"
    /\ UNCHANGED <<retainedVars, uptime, mainVars, wifiVars, channel_init, sent,
                   sensorVars, report_result, init_result, clockLogVars>>

\* A slip that reports before the reading is written to the history.
DisplayReceiveUnwritten ==
    /\ MainSuspended
    /\ display_pc = "receive"
    /\ channel # <<>>
    /\ LET r == Head(channel)
       IN  /\ channel' = Tail(channel)
           /\ received' = Append(received, r)
           /\ display_now' = r.time
    /\ display_pc' = "report"
    /\ UNCHANGED <<retainedVars, uptime, mainVars, wifiVars, channel_init, sent,
                   sensorVars, report_result, init_result, clockLogVars, historyVars>>

\* A slip that takes the oldest reading and discards the ones queued behind it.
DisplayReceiveDiscarding ==
    /\ MainSuspended
    /\ display_pc = "receive"
    /\ channel # <<>>
    /\ LET r == Head(channel)
       IN  /\ channel' = <<>>
           /\ received' = Append(received, r)
           /\ history' = HistoryWrite(history, r)
           /\ appended' = Append(appended, r)
           /\ display_now' = HistoryRecent(history')[1].time
    /\ display_pc' = "report"
    /\ UNCHANGED <<retainedVars, uptime, mainVars, wifiVars, channel_init, sent,
                   sensorVars, report_result, init_result, clockLogVars>>

\* update_task, display.rs:67-74, and report up to the await of draw_buffer,
\* display.rs:95-107: a reading is received, written to the history and drawn
DisplayReceive ==
    /\ MainSuspended
    /\ display_pc = "receive"
    /\ channel # <<>>
    /\ LET r == Head(channel)
       IN  /\ channel' = Tail(channel)
           /\ received' = Append(received, r)
           /\ history' = HistoryWrite(history, r)
           /\ appended' = Append(appended, r)
           /\ display_now' = HistoryRecent(history')[1].time
    /\ display_pc' = "report"
    /\ UNCHANGED <<retainedVars, uptime, mainVars, wifiVars, channel_init, sent,
                   sensorVars, report_result, init_result, clockLogVars>>

\* A slip in which a failed report ends the display task.
DisplayReportDoneFatal ==
    /\ Idle
    /\ display_pc = "report"
    /\ \E result \in {"Ok", "Display"} :
        /\ report_result' = result
        /\ display_pc' = IF result = "Ok" THEN "receive" ELSE "exited"
    /\ display_now' = 0
    /\ UNCHANGED <<retainedVars, uptime, mainVars, wifiVars, channelVars, sensorVars,
                   init_result, clockLogVars, historyVars>>

\* report, display.rs:106-109: draw_buffer returned Ok or an error, which
\* report returns as ReportError::Display; update_task logs an error and
\* waits for the next reading, display.rs:74-77 and 67-69
DisplayReportDone ==
    /\ Idle
    /\ display_pc = "report"
    /\ \E result \in {"Ok", "Display"} : report_result' = result
    /\ display_now' = 0
    /\ display_pc' = "receive"
    /\ UNCHANGED <<retainedVars, uptime, mainVars, wifiVars, channelVars, sensorVars,
                   init_result, clockLogVars, historyVars>>

(***************************************************************************)
(* waveshare-154bv2-rs: command.rs                                         *)
(***************************************************************************)
DRIVER_OUTPUT_CONTROL == 1
DEEP_SLEEP_MODE == 16
DATA_ENTRY_MODE == 17
SOFTWARE_RESET == 18
MASTER_ACTIVATION == 32
DISPLAY_UPDATE_CONTROL_2 == 34
WRITE_RAM_BLACK == 36
WRITE_RAM_CHROMATIC == 38
BORDER_WAVEFORM_CONTROL == 60
SET_RAM_X_ADDRESS_START_END_POSITION == 68
SET_RAM_Y_ADDRESS_START_END_POSITION == 69
SET_RAM_X_ADDRESS_COUNTER == 78
SET_RAM_Y_ADDRESS_COUNTER == 79

(***************************************************************************)
(* waveshare-154bv2-rs: async.rs and blocking.rs, Display                  *)
(* An operation is the sequence of the steps it executes, each followed by *)
(* `?` in the source: the first step that fails ends the operation.        *)
(***************************************************************************)
\* async.rs:28-29
IS_BUSY_LOW_flipped == TRUE

IS_BUSY_LOW == FALSE

\* async.rs:31-35
WIDTH == 200

HEIGHT == 200

\* the steps
rst_set(level) == [kind |-> "rst", level |-> level, ms |-> 0, bytes |-> <<>>]

delay_ms(ms) == [kind |-> "delay", level |-> "none", ms |-> ms, bytes |-> <<>>]

wait_until_idle == [kind |-> "wait", level |-> "none", ms |-> 0, bytes |-> <<>>]

send_command(command) ==
    [kind |-> "command", level |-> "none", ms |-> 0, bytes |-> <<command>>]

send_data(data) == [kind |-> "data", level |-> "none", ms |-> 0, bytes |-> data]

\* hardware_reset, async.rs:443-460
hardware_reset ==
    <<rst_set("high"), delay_ms(10), rst_set("low"), delay_ms(10), rst_set("high"),
      delay_ms(200)>>

\* A slip that sends the software reset without waiting for the panel.
software_reset_without_wait == <<send_command(SOFTWARE_RESET)>>

\* software_reset, async.rs:364-371
software_reset == <<wait_until_idle, send_command(SOFTWARE_RESET)>>

\* set_driver_output_control, async.rs:160-168
set_driver_output_control ==
    <<wait_until_idle, send_command(DRIVER_OUTPUT_CONTROL), send_data(<<199, 0, 1>>)>>

\* a group of consecutive assert_eq!(left, right): the step panics unless
\* every pair is equal
assert_eq(pairs) ==
    [kind |-> "assert",
     level |-> IF \A i \in DOMAIN pairs : pairs[i][1] = pairs[i][2]
               THEN "holds" ELSE "fails",
     ms |-> 0,
     bytes |-> <<>>]

\* A slip that takes the width in pixels for the end of the X window.
set_ram_size_in_pixels(width, height) ==
    LET x_start == 0
        x_end == ((width % 256) - 1) % 256
        y_start == ((height % 65536) - 1) % 65536
        y_end == 0
        y_start_0 == y_start % 256
        y_start_1 == y_start \div 256
        y_end_0 == y_end % 256
        y_end_1 == y_end \div 256
    IN  <<send_command(DATA_ENTRY_MODE), send_data(<<1>>),
          assert_eq(<<<<x_start, 0>>, <<x_end, 24>>>>),
          send_command(SET_RAM_X_ADDRESS_START_END_POSITION),
          send_data(<<x_start, x_end>>),
          assert_eq(<<<<y_start, 199>>, <<y_end, 0>>, <<y_start_0, 199>>, <<y_start_1, 0>>,
                      <<y_end_0, 0>>, <<y_end_1, 0>>>>),
          send_command(SET_RAM_Y_ADDRESS_START_END_POSITION),
          send_data(<<y_start_0, y_start_1, y_end_0, y_end_1>>)>>

\* set_ram_size, async.rs:176-213: `width as u8 / 8 - 1` and
\* `height as u16 - 1`, the assertions on them, and the little-endian bytes
set_ram_size(width, height) ==
    LET x_start == 0
        x_end == ((width % 256) \div 8 - 1) % 256
        y_start == ((height % 65536) - 1) % 65536
        y_end == 0
        y_start_0 == y_start % 256
        y_start_1 == y_start \div 256
        y_end_0 == y_end % 256
        y_end_1 == y_end \div 256
    IN  <<send_command(DATA_ENTRY_MODE), send_data(<<1>>),
          assert_eq(<<<<x_start, 0>>, <<x_end, 24>>>>),
          send_command(SET_RAM_X_ADDRESS_START_END_POSITION),
          send_data(<<x_start, x_end>>),
          assert_eq(<<<<y_start, 199>>, <<y_end, 0>>, <<y_start_0, 199>>, <<y_start_1, 0>>,
                      <<y_end_0, 0>>, <<y_end_1, 0>>>>),
          send_command(SET_RAM_Y_ADDRESS_START_END_POSITION),
          send_data(<<y_start_0, y_start_1, y_end_0, y_end_1>>)>>

\* set_border_waveform_control, async.rs:146-153
set_border_waveform_control ==
    <<send_command(BORDER_WAVEFORM_CONTROL), send_data(<<5>>)>>

\* set_ram_address_counters, async.rs:127-139
set_ram_address_counters ==
    <<send_command(SET_RAM_X_ADDRESS_COUNTER), send_data(<<0>>),
      send_command(SET_RAM_Y_ADDRESS_COUNTER), send_data(<<199>>), send_data(<<0>>)>>

\* initialize, async.rs:106-120
initialize ==
    hardware_reset \o software_reset \o set_driver_output_control
    \o set_ram_size(WIDTH, HEIGHT) \o set_border_waveform_control
    \o set_ram_address_counters \o <<wait_until_idle>>

\* refresh, async.rs:345-357
refresh ==
    <<send_command(DISPLAY_UPDATE_CONTROL_2), send_data(<<247>>),
      send_command(MASTER_ACTIVATION), wait_until_idle>>

\* transfer_black, async.rs:316-322
transfer_black(black) == <<send_command(WRITE_RAM_BLACK), send_data(black)>>

\* A slip that sends the chromatic plane as it is.
transfer_chromatic_plain(chromatic) ==
    <<send_command(WRITE_RAM_CHROMATIC), send_data(chromatic)>>

\* transfer_chromatic, async.rs:294-309: a zeroed array of the size of a
\* plane receives the complement of each byte handed over
transfer_chromatic(chromatic) ==
    LET inverse == [i \in 1 .. PanelBytes |->
                        IF i <= Len(chromatic) THEN Not8(chromatic[i]) ELSE 0]
    IN  <<send_command(WRITE_RAM_CHROMATIC), send_data(inverse)>>

\* draw_buffer, async.rs:250-262
draw_buffer(frame) ==
    transfer_black(frame.black) \o transfer_chromatic(frame.chromatic) \o refresh

\* clear, async.rs:220-242: one send_data per byte of a plane
clear ==
    <<send_command(WRITE_RAM_BLACK)>> \o [i \in 1 .. PanelBytes |-> send_data(<<255>>)]
    \o <<send_command(WRITE_RAM_CHROMATIC)>> \o [i \in 1 .. PanelBytes |-> send_data(<<0>>)]
    \o refresh

\* transfer_channels, async.rs:269-287: each plane is an Option, <<>> for
\* None and <<plane>> for Some(plane)
transfer_channels(black, chromatic) ==
    (IF black # <<>> THEN transfer_black(black[1]) ELSE <<>>)
    \o (IF chromatic # <<>> THEN transfer_chromatic(chromatic[1]) ELSE <<>>)
    \o refresh

\* release, async.rs:329-338
release == <<send_command(DEEP_SLEEP_MODE), send_data(<<1>>), delay_ms(200)>>

\* data.chunks(size)
chunks(data, size) ==
    [k \in 1 .. ((Len(data) + size - 1) \div size) |->
        SubSeq(data, (k - 1) * size + 1, Min({k * size, Len(data)}))]

\* A slip that leaves out the last, shorter chunk (chunks_exact).
write_exact_chunks(data) ==
    IF target_linux
    THEN [k \in 1 .. (Len(data) \div MaxTransfer) |->
            SubSeq(data, (k - 1) * MaxTransfer + 1, k * MaxTransfer)]
    ELSE IF individual_writes
    THEN [i \in 1 .. Len(data) |-> <<data[i]>>]
    ELSE <<data>>

\* write, async.rs:402-423 and blocking.rs:362-378: the slices handed to
\* spi.write, in order
write(data) ==
    IF target_linux
    THEN chunks(data, MaxTransfer)
    ELSE IF individual_writes
    THEN [i \in 1 .. Len(data) |-> <<data[i]>>]
    ELSE <<data>>

\* A slip that leaves the DC line low for data.
dc_level_always_low(kind) == "low"

\* send_command sets DC low, send_data sets it high, async.rs:378-395
dc_level(kind) == IF kind = "command" THEN "low" ELSE "high"

\* A slip that reads the BUSY pin the other way round.
is_busy_negated(is_busy_low, level) ==
    \/ is_busy_low /\ level = "high"
    \/ ~is_busy_low /\ level = "low"

\* is_busy, blocking.rs:397-401
is_busy(is_busy_low, level) ==
    \/ is_busy_low /\ level = "low"
    \/ ~is_busy_low /\ level = "high"

\* the planes a caller may hand to draw_buffer: all white, all black ink, and
\* a ramp of different bytes
DriverPlanes ==
    {[i \in 1 .. PanelBytes |-> 255],
     [i \in 1 .. PanelBytes |-> 0],
     [i \in 1 .. PanelBytes |-> (85 * i) % 256]}

DriverFrames == [black : DriverPlanes, chromatic : DriverPlanes]

\* the pairs of optional planes a caller may hand to transfer_channels
DriverChannels ==
    LET Option == {<<>>} \cup {<<plane>> : plane \in DriverPlanes}
    IN  [black : Option, chromatic : Option]

\* the steps of the operation in progress
DriverScript ==
    CASE drv_op = "initialize" -> initialize
      [] drv_op = "draw_buffer" -> draw_buffer(drv_frame[1])
      [] drv_op = "clear" -> clear
      [] drv_op = "transfer_channels" ->
            transfer_channels(drv_frame[1].black, drv_frame[1].chromatic)
      [] drv_op = "release" -> release
      [] OTHER -> <<>>

DriverStep == DriverScript[drv_step]

\* a step returned Ok: the operation goes on, or returns Ok after its last
StepDone(step) ==
    /\ trace' = Append(trace, step)
    /\ drv_phase' = "start"
    /\ drv_off' = 0
    /\ IF drv_step = Len(DriverScript)
       THEN drv_result' = "Ok" /\ drv_step' = drv_step
       ELSE drv_result' = drv_result /\ drv_step' = drv_step + 1

\* a step returned an error, which `?` returns from the operation
StepFailed(error) ==
    /\ drv_result' = error
    /\ UNCHANGED <<trace, drv_step, drv_phase, drv_off>>

\* Display::new and Display::new_with_individual_writes, async.rs:71-99 and
\* blocking.rs:71-79, on a panel in either state
InitDriver ==
    /\ flavour \in {"async", "blocking"}
    /\ individual_writes \in (IF flavour = "async" THEN BOOLEAN ELSE {FALSE})
    /\ target_linux \in BOOLEAN
    /\ dc = "unset"
    /\ rst = "unset"
    /\ busy \in {"low", "high"}
    /\ drv_op = "none"
    /\ drv_frame = <<>>
    /\ drv_step = 0
    /\ drv_phase = "start"
    /\ drv_off = 0
    /\ drv_result = "none"
    /\ drv_calls = 0
    /\ trace = <<>>
    /\ wire = <<>>

\* the Display of update_task, display.rs:59, before any operation
InitDriverIdle ==
    /\ flavour = "async"
    /\ individual_writes = TRUE
    /\ target_linux = FALSE
    /\ dc = "unset"
    /\ rst = "unset"
    /\ busy = "low"
    /\ drv_op = "none"
    /\ drv_frame = <<>>
    /\ drv_step = 0
    /\ drv_phase = "start"
    /\ drv_off = 0
    /\ drv_result = "none"
    /\ drv_calls = 0
    /\ trace = <<>>
    /\ wire = <<>>

\* A slip in which release borrows the Display as the other operations do.
DriverCallBorrowing ==
    /\ drv_result \notin {"running", "panic"}
    /\ drv_calls < MaxDriverCalls
    /\ \E op \in {"initialize", "draw_buffer", "clear", "transfer_channels", "release"} :
        /\ drv_op' = op
        /\ CASE op = "draw_buffer" -> \E frame \in DriverFrames : drv_frame' = <<frame>>
             [] op = "transfer_channels" ->
                    \E frame \in DriverChannels : drv_frame' = <<frame>>
             [] OTHER -> drv_frame' = <<>>
    /\ drv_step' = 1
    /\ drv_phase' = "start"
    /\ drv_off' = 0
    /\ drv_result' = "running"
    /\ drv_calls' = drv_calls + 1
    /\ trace' = <<>>
    /\ wire' = <<>>
    /\ UNCHANGED <<flavour, individual_writes, target_linux, dc, rst, busy>>

\* a caller calls initialize(), clear(), draw_buffer(buffer),
\* transfer_channels(black, chromatic) or release() on a Display that is not
\* executing an operation; release takes the Display by value (`mut self`,
\* async.rs:329), so that nothing can be called on it afterwards
DriverCall ==
    /\ drv_result \notin {"running", "panic"}
    /\ drv_op # "release"
    /\ drv_calls < MaxDriverCalls
    /\ \E op \in {"initialize", "draw_buffer", "clear", "transfer_channels", "release"} :
        /\ drv_op' = op
        /\ CASE op = "draw_buffer" -> \E frame \in DriverFrames : drv_frame' = <<frame>>
             [] op = "transfer_channels" ->
                    \E frame \in DriverChannels : drv_frame' = <<frame>>
             [] OTHER -> drv_frame' = <<>>
    /\ drv_step' = 1
    /\ drv_phase' = "start"
    /\ drv_off' = 0
    /\ drv_result' = "running"
    /\ drv_calls' = drv_calls + 1
    /\ trace' = <<>>
    /\ wire' = <<>>
    /\ UNCHANGED <<flavour, individual_writes, target_linux, dc, rst, busy>>

\* release returned Ok((spi, busy, rst, dc)), async.rs:337, and the caller
\* builds a Display again from these parts with the constructor used before
\* (async.rs:71-99); the pins keep their levels
DriverNew ==
    /\ drv_op = "release"
    /\ drv_result = "Ok"
    /\ drv_op' = "none"
    /\ drv_frame' = <<>>
    /\ drv_step' = 0
    /\ drv_phase' = "start"
    /\ drv_off' = 0
    /\ drv_result' = "none"
    /\ trace' = <<>>
    /\ wire' = <<>>
    /\ UNCHANGED <<flavour, individual_writes, target_linux, dc, rst, busy, drv_calls>>

\* self.rst.set_high() / set_low(), async.rs:446-454
DriverSetRst ==
    /\ drv_result = "running"
    /\ DriverStep.kind = "rst"
    /\ \E ok \in BOOLEAN :
        IF ok
        THEN /\ rst' = DriverStep.level
             /\ StepDone(DriverStep)
        ELSE /\ StepFailed("Digital")
             /\ UNCHANGED rst
    /\ UNCHANGED <<flavour, individual_writes, target_linux, dc, busy, drv_op, drv_frame,
                   drv_calls, wire>>

\* the assertions of set_ram_size, async.rs:184-185 and 194-204: they hold and
\* the operation goes on, or the task panics; nothing is set or written
DriverAssert ==
    /\ drv_result = "running"
    /\ DriverStep.kind = "assert"
    /\ IF DriverStep.level = "holds"
       THEN /\ drv_step' = drv_step + 1
            /\ UNCHANGED drv_result
       ELSE /\ drv_result' = "panic"
            /\ UNCHANGED drv_step
    /\ UNCHANGED <<flavour, individual_writes, target_linux, dc, rst, busy, drv_op,
                   drv_frame, drv_phase, drv_off, drv_calls, trace, wire>>

\* self.delay.delay_ms(ms), async.rs:447-456
DriverDelay ==
    /\ drv_result = "running"
    /\ DriverStep.kind = "delay"
    /\ StepDone(DriverStep)
    /\ UNCHANGED <<flavour, individual_writes, target_linux, dc, rst, busy, drv_op,
                   drv_frame, drv_calls, wire>>

\* wait_until_idle, async.rs:430-436 and blocking.rs:385-390: the wait ends
\* when the pin is read at the level that is not busy, or with an error of
\* the pin; while the panel is busy the blocking driver polls every 10 ms
DriverWait ==
    /\ drv_result = "running"
    /\ DriverStep.kind = "wait"
    /\ \E ok \in BOOLEAN :
        IF ok
        THEN /\ IF flavour = "blocking"
                THEN ~is_busy(IS_BUSY_LOW, busy)
                ELSE busy = (IF IS_BUSY_LOW THEN "high" ELSE "low")
             /\ StepDone([DriverStep EXCEPT !.level = busy])
        ELSE StepFailed("Digital")
    /\ UNCHANGED <<flavour, individual_writes, target_linux, dc, rst, busy, drv_op,
                   drv_frame, drv_calls, wire>>

\* send_command / send_data, async.rs:378-395: the DC line is set; a failure
\* returns before write is called
DriverSetDc ==
    /\ drv_result = "running"
    /\ DriverStep.kind \in {"command", "data"}
    /\ drv_phase = "start"
    /\ \E ok \in BOOLEAN :
        IF ok
        THEN /\ dc' = dc_level(DriverStep.kind)
             /\ IF write(DriverStep.bytes) = <<>>
                THEN StepDone(DriverStep)
                ELSE /\ drv_phase' = "write"
                     /\ UNCHANGED <<trace, drv_step, drv_off, drv_result>>
        ELSE /\ StepFailed("Digital")
             /\ UNCHANGED dc
    /\ UNCHANGED <<flavour, individual_writes, target_linux, rst, busy, drv_op, drv_frame,
                   drv_calls, wire>>

\* write, async.rs:402-423: one call of spi.write returned
DriverTransfer ==
    /\ drv_result = "running"
    /\ DriverStep.kind \in {"command", "data"}
    /\ drv_phase = "write"
    /\ LET slices == write(DriverStep.bytes)
       IN  \E ok \in BOOLEAN :
            IF ok
            THEN /\ wire' = Append(wire, [kind |-> DriverStep.kind, dc |-> dc,
                                          bytes |-> slices[drv_off + 1]])
                 /\ IF drv_off + 1 = Len(slices)
                    THEN StepDone(DriverStep)
                    ELSE /\ drv_off' = drv_off + 1
                         /\ UNCHANGED <<trace, drv_step, drv_phase, drv_result>>
            ELSE /\ StepFailed("Spi")
                 /\ UNCHANGED wire
    /\ UNCHANGED <<flavour, individual_writes, target_linux, dc, rst, busy, drv_op,
                   drv_frame, drv_calls>>

\* the panel raises or lowers its BUSY line
PanelBusy ==
    /\ drv_result = "running"
    /\ busy' = IF busy = "low" THEN "high" ELSE "low"
    /\ UNCHANGED <<flavour, individual_writes, target_linux, dc, rst, drv_op, drv_frame,
                   drv_step, drv_phase, drv_off, drv_result, drv_calls, trace, wire>>

(***************************************************************************)
(* Specifications                                                          *)
(***************************************************************************)
InitRoundIdle ==
    /\ round_now = 0
    /\ round_period = FromSecs(60)
    /\ round_then = 0
    /\ round_wait = 0
    /\ round_pc = "input"
    /\ round_calls = 0

\* first power-on: the retained memory holds its initial values
InitSystem ==
    /\ BOOT_TIME = [epoch |-> 0, offset |-> 0]
    /\ BOOT_COUNT = 0
    /\ saved = [wall |-> 0, counted |-> 0, elapsed |-> 0, offset |-> 0]
    /\ faulty_sessions = 0
    /\ sources = <<>>
    /\ SessionStart

Init == InitRoundIdle /\ InitBuffer /\ InitHistory /\ InitSystem /\ InitDriverIdle

Next ==
    \/ MainBoot /\ UNCHANGED <<roundVars, bufferVars, driverVars>>
    \/ MainLinkUp /\ UNCHANGED <<roundVars, bufferVars, driverVars>>
    \/ MainFetchDone /\ UNCHANGED <<roundVars, bufferVars, driverVars>>
    \/ MainSetupDisplay /\ UNCHANGED <<roundVars, bufferVars, driverVars>>
    \/ MainSetupSensor /\ UNCHANGED <<roundVars, bufferVars, driverVars>>
    \/ MainPersist /\ UNCHANGED <<roundVars, bufferVars, driverVars>>
    \/ MainEnterDeepSleep /\ UNCHANGED <<roundVars, bufferVars, driverVars>>
    \/ Wake /\ UNCHANGED <<roundVars, bufferVars, driverVars>>
    \/ WifiStartController /\ UNCHANGED <<roundVars, bufferVars, driverVars>>
    \/ WifiConnected /\ UNCHANGED <<roundVars, bufferVars, driverVars>>
    \/ WifiStopRequested /\ UNCHANGED <<roundVars, bufferVars, driverVars>>
    \/ WifiStopDone /\ UNCHANGED <<roundVars, bufferVars, driverVars>>
    \/ SensorInitDone /\ UNCHANGED <<roundVars, bufferVars, driverVars>>
    \/ SensorCycleStart /\ UNCHANGED <<roundVars, bufferVars, driverVars>>
    \/ SensorReadDone /\ UNCHANGED <<roundVars, bufferVars, driverVars>>
    \/ SensorSendResume /\ UNCHANGED <<roundVars, bufferVars, driverVars>>
    \/ DisplayInitDone /\ UNCHANGED <<roundVars, bufferVars, driverVars>>
    \/ DisplayReceive /\ UNCHANGED <<roundVars, bufferVars, driverVars>>
    \/ DisplayReportDone /\ UNCHANGED <<roundVars, bufferVars, driverVars>>
    \/ Tick /\ UNCHANGED <<roundVars, bufferVars, driverVars>>

Spec == Init /\ [][Next]_vars

\* The executor polls every task that was woken, and the timer driver wakes a
\* task when its deadline has passed: a step of a task that can run is
\* taken, and time passes while every task is suspended.  What is awaited
\* from outside (the network, the sensor, the panel) may never complete.
Polled ==
    \/ MainBoot \/ MainLinkUp \/ MainSetupDisplay \/ MainSetupSensor
    \/ MainPersist \/ MainEnterDeepSleep
    \/ WifiStopRequested
    \/ SensorCycleStart \/ SensorSendResume
    \/ DisplayReceive

SpecLive ==
    /\ Spec
    /\ WF_vars(Polled /\ UNCHANGED <<roundVars, bufferVars, driverVars>>)
    /\ WF_vars(Tick /\ UNCHANGED <<roundVars, bufferVars, driverVars>>)

NextRound ==
    \/ RoundCall /\ UNCHANGED <<bufferVars, historyVars, systemVars, driverVars>>
    \/ RoundWake /\ UNCHANGED <<bufferVars, historyVars, systemVars, driverVars>>

InitOfRound == InitRound /\ InitBuffer /\ InitHistory /\ InitSystem /\ InitDriverIdle

SpecRound == InitOfRound /\ [][NextRound]_vars

NextHistory ==
    HistoryAppend /\ UNCHANGED <<roundVars, bufferVars, systemVars, driverVars>>

\* the states of SpecHistory and SpecBuffer start as those of Spec
SpecHistory == Init /\ [][NextHistory]_vars

NextBuffer ==
    \/ Draw /\ UNCHANGED <<roundVars, historyVars, systemVars, driverVars>>
    \/ SetRotation /\ UNCHANGED <<roundVars, historyVars, systemVars, driverVars>>

SpecBuffer == Init /\ [][NextBuffer]_vars

NextDriver ==
    \/ DriverCall /\ UNCHANGED <<roundVars, bufferVars, historyVars, systemVars>>
    \/ DriverAssert /\ UNCHANGED <<roundVars, bufferVars, historyVars, systemVars>>
    \/ DriverNew /\ UNCHANGED <<roundVars, bufferVars, historyVars, systemVars>>
    \/ DriverSetRst /\ UNCHANGED <<roundVars, bufferVars, historyVars, systemVars>>
    \/ DriverDelay /\ UNCHANGED <<roundVars, bufferVars, historyVars, systemVars>>
    \/ DriverWait /\ UNCHANGED <<roundVars, bufferVars, historyVars, systemVars>>
    \/ DriverSetDc /\ UNCHANGED <<roundVars, bufferVars, historyVars, systemVars>>
    \/ DriverTransfer /\ UNCHANGED <<roundVars, bufferVars, historyVars, systemVars>>
    \/ PanelBusy /\ UNCHANGED <<roundVars, bufferVars, historyVars, systemVars>>

InitOfDriver == InitRoundIdle /\ InitBuffer /\ InitHistory /\ InitSystem /\ InitDriver

SpecDriver == InitOfDriver /\ [][NextDriver]_vars

(***************************************************************************)
(* C1: on the capacity-3 channel between the sensor task and the display   *)
(* task, a send issued while the channel holds 3 readings suspends the     *)
(* sensor task until a receive frees a slot, and no reading is dropped or  *)
(* duplicated: the multiset of the readings received plus the readings     *)
(* still queued always equals the multiset of the readings whose send      *)
(* completed.                                                              *)
(***************************************************************************)
BagOf(seq) ==
    [x \in {seq[i] : i \in DOMAIN seq} |-> Cardinality({i \in DOMAIN seq : seq[i] = x})]

C1_Conservation ==
    /\ Len(channel) <= CHANNEL_CAPACITY
    /\ BagOf(received) (+) BagOf(channel) = BagOf(sent)
    /\ sensor_pc = "send" => (reading # <<>> /\ Len(channel) >= CHANNEL_CAPACITY - 1)

C1_Suspension ==
    /\ (sensor_pc = "read" /\ sensor_pc' \in {"send", "wait"}
            /\ Len(channel) = CHANNEL_CAPACITY)
        => (sensor_pc' = "send" /\ reading' # <<>> /\ sent' = sent /\ channel' = channel)
    /\ (sensor_pc = "send" /\ Len(channel) = CHANNEL_CAPACITY /\ main_pc # "asleep")
        => (sensor_pc' = "send" /\ reading' = reading /\ sent' = sent)
    /\ (sensor_pc = "send" /\ sensor_pc' = "wait")
        => (Len(channel) < CHANNEL_CAPACITY /\ received # <<>>
            /\ sent' = Append(sent, reading[1])
            /\ channel' = Append(channel, reading[1]))

C1_ChannelBackpressure == []C1_Conservation /\ [][C1_Suspension]_vars

\* the sensor task is suspended in a send on the full channel, behind
\* readings of which the display task received the first
C1_Witness ==
    /\ sensor_pc = "send"
    /\ Len(channel) = CHANNEL_CAPACITY
    /\ Len(received) = 1
    /\ Len(sent) = CHANNEL_CAPACITY + 1
    /\ \A i \in DOMAIN sent : sent[i] # reading[1]

(***************************************************************************)
(* C2: if clock A is built with wall time W, save_to_rtc_memory(D) is      *)
(* called on it, and clock B is built by from_rtc_memory in the next       *)
(* session, whose uptime restarted at 0, then B.now_as_epoch() is W + D    *)
(* plus the uptime that elapsed in A's session before the save and in B's  *)
(* session since boot, in the whole seconds the clock counts (never W),    *)
(* and B carries the UTC offset of A.                                      *)
(***************************************************************************)
C2_ClockContinuity ==
    (clock # <<>> /\ clock_built.source = "rtc") =>
        LET A == clock_built.prior
            W == A.wall
            D == AsSecs(DEEP_SLEEP_DURATION)
            inA == A.counted
            inB == AsSecs(uptime)
            exact == FromSecs(W + D) + A.elapsed + uptime
            B == NowAsEpoch(clock[1], uptime)
        IN  /\ B = W + D + inA + inB
            /\ FromSecs(B) > exact - FromSecs(2)
            /\ FromSecs(B) < exact + FromSecs(1)
            /\ B >= W + D
            /\ B # W
            /\ clock[1].offset = A.offset

\* B runs in the second session; A was synchronized with the server and saved
\* 300 s later
C2_Witness ==
    /\ BOOT_COUNT = 2
    /\ clock # <<>>
    /\ clock_built.source = "rtc"
    /\ clock_built.prior.wall = ExampleInstant
    /\ clock_built.prior.elapsed = AWAKE_PERIOD
    /\ uptime > 0
    /\ NowAsEpoch(clock[1], uptime) =
        ExampleInstant + AsSecs(DEEP_SLEEP_DURATION) + AsSecs(AWAKE_PERIOD) + AsSecs(uptime)

(***************************************************************************)
(* C3: for every wall time T and every whole-second period P >= 1 s,       *)
(* next_rounded_wakeup(T, P) is an exact multiple of P seconds since the   *)
(* epoch and is the smallest such multiple strictly greater than T; at     *)
(* 09:46:12 it gives 09:47:00 for 1 minute, 09:50:00 for 5 minutes and     *)
(* 10:00:00 for 1 hour.                                                    *)
(***************************************************************************)
C3_SmallestMultipleAfter ==
    round_pc = "done" =>
        LET T == AsSecs(round_now)
            P == AsSecs(round_period)
            R == AsSecs(round_then)
        IN  /\ round_then = FromSecs(R)
            /\ R % P = 0
            /\ R > T
            /\ \A m \in (T + 1) .. (R - 1) : m % P # 0
            /\ (T = ExampleInstant /\ P = 60) => R = 9 * 3600 + 47 * 60
            /\ (T = ExampleInstant /\ P = 300) => R = 9 * 3600 + 50 * 60
            /\ (T = ExampleInstant /\ P = 3600) => R = 10 * 3600

C3_Witness ==
    /\ round_pc = "done"
    /\ round_now = FromSecs(ExampleInstant)
    /\ round_period = FromSecs(300)
    /\ round_then = FromSecs(9 * 3600 + 50 * 60)

(***************************************************************************)
(* C4: after any sequence of appends to the capacity-96 History its length *)
(* is min(number of appends, 96), never above 96; an append always         *)
(* succeeds; the retained entries are the most recent ones in arrival      *)
(* order, the oldest evicted first.                                        *)
(***************************************************************************)
C4_HistoryBoundedOverwrite ==
    LET n == Len(appended)
        kept == IF n < HISTORY_CAPACITY THEN n ELSE HISTORY_CAPACITY
    IN  /\ HistoryLen(history) = kept
        /\ HistoryLen(history) <= HISTORY_CAPACITY
        /\ HistoryOldestOrdered(history) = SubSeq(appended, n - kept + 1, n)
        /\ n > 0 => HistoryRecent(history) = <<appended[n]>>
        /\ n < MaxAppends => ENABLED HistoryAppend

C4_Witness ==
    /\ Len(appended) = HISTORY_CAPACITY + 1
    /\ HistoryLen(history) = HISTORY_CAPACITY
    /\ HistoryOldestOrdered(history)[1] = appended[2]

(***************************************************************************)
(* C6: for every pixel in bounds and every prior content of the buffer,    *)
(* drawing Black sets the pixel's black-plane bit to 0 and leaves its      *)
(* chromatic-plane bit unchanged; drawing White sets the bit to 1 in both  *)
(* planes; drawing Chromatic sets the chromatic-plane bit to 0 and leaves  *)
(* the black-plane bit unchanged.                                          *)
(***************************************************************************)
C6_DrawEffect(pixel) ==
    LET b  == PlaneBit(buffer.black, pixel.x, pixel.y)
        c  == PlaneBit(buffer.chromatic, pixel.x, pixel.y)
        b2 == PlaneBit(buffer'.black, pixel.x, pixel.y)
        c2 == PlaneBit(buffer'.chromatic, pixel.x, pixel.y)
    IN  /\ pixel.color = "Black" => (b2 = 0 /\ c2 = c)
        /\ pixel.color = "White" => (b2 = 1 /\ c2 = 1)
        /\ pixel.color = "Chromatic" => (c2 = 0 /\ b2 = b)

C6_ColourEncoding ==
    [][(draws' = draws + 1 /\ InBounds(drawn'[1])) => C6_DrawEffect(drawn'[1])]_vars

\* Black was drawn on a pixel whose chromatic bit had been cleared before:
\* the black bit is 0 and the chromatic bit is still 0
C6_Witness ==
    /\ draws = 2
    /\ drawn # <<>>
    /\ InBounds(drawn[1])
    /\ drawn[1].color = "Black"
    /\ PlaneBit(buffer.black, drawn[1].x, drawn[1].y) = 0
    /\ PlaneBit(buffer.chromatic, drawn[1].x, drawn[1].y) = 0

(***************************************************************************)
(* C5: with a sensor whose read always fails with a bus error, or always   *)
(* lacks a measurement, every cycle of the sample loop still sends exactly *)
(* one reading into the channel, its sample is a synthetic one within the  *)
(* fallback ranges (temperature 15-30 C, humidity 20-80 %, pressure        *)
(* 990-1010 hPa), and the sensor task never stalls waiting for a healthy   *)
(* sensor.                                                                 *)
(***************************************************************************)
InFallbackRanges(sample) ==
    /\ sample.temperature >= 1500 /\ sample.temperature <= 3000
    /\ sample.humidity >= 2000 /\ sample.humidity <= 8000
    /\ sample.pressure >= 99000 /\ sample.pressure <= 101000

\* the faulty sensor answered: the one reading of this cycle is sent, or its
\* send is suspended on the full channel
C5_CycleSendsOne ==
    (sensor_health # "healthy" /\ sensor_pc = "read" /\ sensor_pc' # "read"
            /\ main_pc # "asleep")
        => LET posted == IF sensor_pc' = "send" THEN reading' ELSE <<sent'[Len(sent')]>>
           IN  /\ sensor_pc' \in {"send", "wait"}
               /\ Len(posted) = 1
               /\ posted[1].time = cycle_now
               /\ InFallbackRanges(posted[1].sample)
               /\ sensor_pc' = "wait" =>
                    (sent' = Append(sent, posted[1]) /\ channel' = Append(channel, posted[1]))
               /\ sensor_pc' = "send" =>
                    (sent' = sent /\ channel' = channel /\ Len(channel) = CHANNEL_CAPACITY)

C5_FaultySensor ==
    sensor_health # "healthy" =>
        /\ \A i \in DOMAIN sent : InFallbackRanges(sent[i].sample)
        /\ \A i, j \in DOMAIN sent : i < j => sent[i].time < sent[j].time
        /\ (sensor_pc = "read" /\ Idle) => ENABLED SensorReadDone

C5_SensorFallback == []C5_FaultySensor /\ [][C5_CycleSendsOne]_vars

\* a sensor that lacks measurements in every read: six cycles of the session
\* sent six synthetic readings
C5_Witness ==
    /\ sensor_health = "incomplete"
    /\ sensor_pc = "wait"
    /\ Len(sent) = 6
    /\ \A i \in DOMAIN sent : InFallbackRanges(sent[i].sample)
    /\ \E i, j \in DOMAIN sent : sent[i].sample # sent[j].sample

(***************************************************************************)
(* C7: after display.initialize() failed and the display task exited, the  *)
(* sensor task keeps completing a sampling cycle (read, send, wait) every  *)
(* sampling period for the rest of the awake window: it is never held in a *)
(* send, and its next cycle is never more than a sampling period away.     *)
(***************************************************************************)
C7_HeadlessSampling ==
    (display_pc = "exited" /\ main_pc = "awake" /\ uptime < awake_until) =>
        /\ sensor_pc # "send"
        /\ sensor_pc = "wait" => sensor_timer - uptime <= SAMPLING_PERIOD

(***************************************************************************)
(* C8: in every session that reaches power-down the orchestrator's events  *)
(* occur in this order: clock obtained, channel constructed, display task  *)
(* spawned, sensor task spawned, fixed awake duration elapsed, clock       *)
(* persisted with DEEP_SLEEP_DURATION added, deep sleep entered with a     *)
(* wakeup timer of DEEP_SLEEP_DURATION; no step is skipped or reordered,   *)
(* and nothing executes after the sleep call.                              *)
(***************************************************************************)
OrchestratorOrder ==
    <<"clock", "channel", "display", "sensor", "awake_elapsed", "persist", "sleep">>

Happened(event) == \E i \in DOMAIN events : events[i] = event

C8_InOrder ==
    /\ Len(events) <= Len(OrchestratorOrder)
    /\ events = SubSeq(OrchestratorOrder, 1, Len(events))
    /\ Happened("clock") <=> clock # <<>>
    /\ Happened("channel") <=> channel_init
    /\ Happened("display") <=> display_pc # "unspawned"
    /\ Happened("sensor") <=> sensor_pc # "unspawned"
    /\ Happened("awake_elapsed") =>
        (awake_until >= AWAKE_PERIOD /\ uptime >= awake_until)
    /\ Happened("persist") =>
        /\ main_pc \in {"persist", "asleep"}
        /\ BOOT_TIME.epoch = NowAsEpoch(clock[1], uptime) + AsSecs(DEEP_SLEEP_DURATION)
        /\ BOOT_TIME.offset = clock[1].offset
    /\ Happened("sleep") <=> main_pc = "asleep"
    /\ main_pc = "asleep" =>
        (events = OrchestratorOrder /\ wakeup_timer = DEEP_SLEEP_DURATION)

C8_NothingAfterSleep ==
    /\ main_pc = "asleep" =>
        (main_pc' = "boot" /\ uptime' = 0 /\ sensor_pc' = "unspawned"
         /\ display_pc' = "unspawned" /\ UNCHANGED <<BOOT_TIME, BOOT_COUNT, history>>)
    /\ (main_pc = "display" /\ main_pc' = "awake") => awake_until' = uptime + AWAKE_PERIOD

C8_OrchestratorOrder == []C8_InOrder /\ [][C8_NothingAfterSleep]_vars

\* a warm session reached power-down
C8_Witness ==
    /\ main_pc = "asleep"
    /\ BOOT_COUNT = 2
    /\ events = OrchestratorOrder
    /\ wakeup_timer = DEEP_SLEEP_DURATION
    /\ BOOT_TIME.epoch = ExampleInstant + 3 * AsSecs(DEEP_SLEEP_DURATION)
                         + AsSecs(AWAKE_PERIOD)

(***************************************************************************)
(* C9: from_rtc_memory returns absent when the retained epoch is the       *)
(* sentinel 0, so the retained clock is never used before it was written;  *)
(* a boot with retained epoch 0 obtains its clock from the network time    *)
(* source; a boot with a non-zero retained epoch and a valid offset        *)
(* obtains it from retention without touching the network.                 *)
(***************************************************************************)
C9_Sources ==
    /\ FromRtcMemory([epoch |-> 0, offset |-> BOOT_TIME.offset], uptime) = <<>>
    /\ clock = <<>> <=> clock_built.source = "none"
    /\ clock_built.source = "rtc" =>
        /\ clock_built.wall # 0
        /\ clock_built.prior.wall # 0
        /\ clock_built.wall = clock_built.prior.wall + clock_built.prior.counted
                              + AsSecs(DEEP_SLEEP_DURATION)
        /\ wifi_pc = "off"
        /\ ~stop_wifi
    /\ clock_built.source = "server" =>
        /\ clock_built.prior.wall = 0
        /\ wifi_pc \in {"connected", "stopping", "left", "stop_failed"}
        /\ clock_built.wall \in ServerTimes

C9_Boot ==
    (main_pc = "boot" /\ main_pc' # "boot") =>
        IF BOOT_TIME.epoch = 0
        THEN /\ clock' = <<>>
             /\ main_pc' \in {"connect", "returned"}
        ELSE UtcOffsetFromWholeSeconds(BOOT_TIME.offset) # <<>> =>
                /\ clock' = <<ClockNew(BOOT_TIME.epoch, BOOT_TIME.offset, uptime)>>
                /\ main_pc' = "clock"
                /\ wifi_pc' = "off"

C9_ColdBootDetection == []C9_Sources /\ [][C9_Boot]_vars

\* a warm boot: the second session runs on the retained clock, the WiFi off
C9_Witness ==
    /\ BOOT_COUNT = 2
    /\ main_pc = "awake"
    /\ clock_built.source = "rtc"
    /\ clock_built.wall = BOOT_TIME.epoch
    /\ wifi_pc = "off"
    /\ sent # <<>>

(***************************************************************************)
(* C10: if on a cold boot the time source, or the network connection       *)
(* before it, returns an error, the error propagates out of load_clock as  *)
(* a failure of main_fallible and the boot sequence is aborted: no channel *)
(* is created, neither pipeline is spawned, and the retained clock keeps   *)
(* its sentinel value.                                                     *)
(***************************************************************************)
C10_Aborted ==
    main_error \in {"Wifi", "Synchronization"} =>
        /\ main_pc = "returned"
        /\ clock = <<>>
        /\ ~channel_init
        /\ channel = <<>>
        /\ display_pc = "unspawned"
        /\ sensor_pc = "unspawned"
        /\ events = <<>>
        /\ BOOT_TIME = [epoch |-> 0, offset |-> 0]

C10_Propagates ==
    /\ (main_pc = "fetch" /\ main_pc' # "fetch") =>
        \/ main_pc' = "returned" /\ main_error' = "Synchronization" /\ clock' = <<>>
        \/ main_pc' = "clock" /\ main_error' = "none" /\ clock' # <<>>
    /\ main_pc = "returned" =>
        (main_pc' = "returned" /\ UNCHANGED <<main_error, clock, channel_init, BOOT_TIME>>
         /\ (sensor_pc = "unspawned" => sensor_pc' = "unspawned")
         /\ (display_pc = "unspawned" => display_pc' = "unspawned"))

C10_FailFastSync == []C10_Aborted /\ [][C10_Propagates]_vars

\* the time source answered with an error 3.5 s after the link came up
C10_Witness ==
    /\ main_pc = "returned"
    /\ main_error = "Synchronization"
    /\ wifi_pc = "connected"
    /\ uptime >= FromMillis(SyncStepMillis)
    /\ BOOT_TIME.epoch = 0
    /\ ~channel_init

(***************************************************************************)
(* C11: in every reachable state the channel holds at most 3 readings; the *)
(* readings are received in exactly the order in which their sends         *)
(* completed, so the readings received followed by the readings queued are *)
(* the readings sent, in order; and a receive on the empty channel keeps   *)
(* the display task suspended until the sensor task sends.                 *)
(***************************************************************************)
C11_BoundedFifo ==
    /\ Len(channel) <= CHANNEL_CAPACITY
    /\ received \o channel = sent

C11_ReceiveSuspends ==
    /\ (display_pc = "receive" /\ channel = <<>> /\ main_pc # "asleep")
        => (display_pc' = "receive" /\ received' = received /\ history' = history)
    /\ (display_pc = "receive" /\ display_pc' = "report")
        => (/\ channel # <<>>
            /\ received' = Append(received, Head(channel))
            /\ channel' = Tail(channel)
            /\ sent' = sent)

C11_ChannelFifo == []C11_BoundedFifo /\ [][C11_ReceiveSuspends]_vars

\* the display task waits on the empty channel after it received two
\* different readings, the older first
C11_Witness ==
    /\ display_pc = "receive"
    /\ channel = <<>>
    /\ Len(received) = 2
    /\ received[1].time < received[2].time
    /\ sensor_pc = "wait"

(***************************************************************************)
(* C12: now_as_epoch() returns the boot epoch plus the whole seconds of    *)
(* uptime, which is the wall time the clock was built with plus the whole  *)
(* seconds counted since; the subtraction that built the clock did not     *)
(* underflow, so the call never fails; and within one session the values   *)
(* returned by successive calls, on the orchestrator's clock or on the     *)
(* sensor task's clone, never decrease.                                    *)
(***************************************************************************)
C12_Value ==
    /\ clock # <<>> =>
        /\ clock[1].boot_time >= 0
        /\ NowAsEpoch(clock[1], uptime) >= clock_built.wall
        /\ NowAsEpoch(clock[1], uptime) = clock[1].boot_time + AsSecs(uptime)
        /\ NowAsEpoch(clock[1], uptime) =
                clock_built.wall + AsSecs(uptime) - AsSecs(clock_built.at)
    /\ sensor_clock # <<>> =>
        /\ sensor_clock = clock
        /\ NowAsEpoch(sensor_clock[1], uptime) = NowAsEpoch(clock[1], uptime)
    /\ \A i, j \in DOMAIN sent : i <= j => sent[i].time <= sent[j].time
    /\ \A i \in DOMAIN sent : sent[i].time <= NowAsEpoch(sensor_clock[1], uptime)

C12_Monotonic ==
    (clock # <<>> /\ clock' # <<>>) =>
        /\ clock' = clock
        /\ NowAsEpoch(clock'[1], uptime') >= NowAsEpoch(clock[1], uptime)
        /\ sensor_clock # <<>> =>
            NowAsEpoch(sensor_clock'[1], uptime') >= NowAsEpoch(sensor_clock[1], uptime)

C12_NowAsEpoch == []C12_Value /\ [][C12_Monotonic]_vars

\* a clock built from the server some seconds after power-on, whose clone
\* stamped three readings, the last two a minute apart
C12_Witness ==
    /\ clock_built.source = "server"
    /\ clock_built.at > 0
    /\ Len(sent) = 3
    /\ sent[1].time < sent[2].time
    /\ sent[3].time = sent[2].time + 60
    /\ NowAsEpoch(sensor_clock[1], uptime) > sent[3].time

(***************************************************************************)
(* C13, as stated: for every current epoch and every period,               *)
(* next_rounded_wakeup returns the smallest instant >= now that is an      *)
(* exact multiple of the period since the Unix epoch.                      *)
(***************************************************************************)
C13_SmallestAtOrAfter ==
    round_pc = "done" =>
        LET T == AsSecs(round_now)
            P == AsSecs(round_period)
            R == AsSecs(round_then)
        IN  /\ R % P = 0
            /\ R >= T
            /\ \A m \in T .. (R - 1) : m % P # 0

(***************************************************************************)
(* C13, amended: next_rounded_wakeup returns the smallest exact multiple   *)
(* of the period that is >= now when now is not itself a multiple of the   *)
(* period, and now + period, one whole period later, when it is; the       *)
(* result is never now.                                                    *)
(***************************************************************************)
C13_SmallestAtOrAfterOffBoundary ==
    round_pc = "done" =>
        LET T == AsSecs(round_now)
            P == AsSecs(round_period)
            R == AsSecs(round_then)
            up == ((T + P - 1) \div P) * P
        IN  /\ R = (IF T % P = 0 THEN T + P ELSE up)
            /\ round_wait = FromSecs(R - T)
            /\ round_wait > 0
            /\ round_wait <= round_period

\* a call made exactly on a boundary, 00:02:00 with a period of one minute,
\* returned the boundary after it
C13_Witness ==
    /\ round_pc = "done"
    /\ round_now = FromSecs(120)
    /\ round_period = FromSecs(60)
    /\ round_then = FromSecs(180)

(***************************************************************************)
(* C14: rounded wakeups never repeat.  Every time the sensor loop computes *)
(* duration_to_next_rounded_wakeup(SAMPLING_PERIOD) the boundary it        *)
(* targets is a whole multiple of the period, lies after the current time  *)
(* and after the boundary targeted before; the task wakes no earlier than  *)
(* the boundary it targeted, so the call made on waking targets the next   *)
(* one.                                                                    *)
(***************************************************************************)
\* the wall time at which the timer the sensor task waits for expires
C14_Target == NowAsEpoch(sensor_clock[1], sensor_timer)

C14_WokenAtTarget ==
    /\ sensor_pc \in {"read", "send"} => cycle_now >= C14_Target
    /\ sensor_pc = "wait" =>
        /\ C14_Target % AsSecs(SAMPLING_PERIOD) = 0
        /\ \A i \in DOMAIN sent : sent[i].time < C14_Target
        /\ \A i \in DOMAIN sent :
                i > 1 => /\ sent[i].time % AsSecs(SAMPLING_PERIOD) = 0
                         /\ sent[i - 1].time < sent[i].time

C14_NextBoundary ==
    (\/ sensor_pc \in {"read", "send"} /\ sensor_pc' = "wait"
     \/ sensor_pc \in {"warmup", "wait"} /\ sensor_pc' = "wait"
            /\ sensor_timer' # sensor_timer)
    => /\ C14_Target' > C14_Target
       /\ C14_Target' % AsSecs(SAMPLING_PERIOD) = 0
       /\ C14_Target' > NowAsEpoch(sensor_clock[1], uptime)
       /\ C14_Target' <= NowAsEpoch(sensor_clock[1], uptime) + AsSecs(SAMPLING_PERIOD)
       /\ sensor_timer' > uptime

C14_RoundedWakeupsNeverRepeat == []C14_WokenAtTarget /\ [][C14_NextBoundary]_vars

\* the sensor task woke on two successive boundaries and waits for the third
C14_Witness ==
    /\ sensor_pc = "wait"
    /\ Len(sent) = 3
    /\ sent[3].time = sent[2].time + AsSecs(SAMPLING_PERIOD)
    /\ C14_Target = sent[3].time + AsSecs(SAMPLING_PERIOD)

(***************************************************************************)
(* C15: a failure of one report is recoverable.  When report() returns an  *)
(* error the display task stays in its loop, waiting for the next reading; *)
(* the next reading received is written to the history and reported with a *)
(* new call of report(), which draws from a fresh buffer; once initialized *)
(* the display task never ends within a session.                           *)
(***************************************************************************)
C15_InLoop ==
    /\ report_result \in {"Ok", "Display"} => display_pc \in {"receive", "report"}
    /\ display_pc = "report" =>
        /\ received # <<>>
        /\ HistoryRecent(history) = <<received[Len(received)]>>
        /\ display_now = received[Len(received)].time

C15_Retries ==
    /\ (display_pc = "report" /\ display_pc' # "report" /\ main_pc # "asleep")
        => (display_pc' = "receive" /\ report_result' \in {"Ok", "Display"})
    /\ (display_pc = "receive" /\ main_pc # "asleep")
        => display_pc' \in {"receive", "report"}
    /\ (display_pc = "receive" /\ report_result = "Display" /\ channel # <<>>
            /\ MainSuspended)
        => ENABLED DisplayReceive

C15_ReportFailureRecoverable == []C15_InLoop /\ [][C15_Retries]_vars

\* the first report failed; the display task received the second reading,
\* wrote it to the history and is reporting it
C15_Witness ==
    /\ display_pc = "report"
    /\ report_result = "Display"
    /\ Len(received) = 2
    /\ Len(appended) = 2

(***************************************************************************)
(* Helpers of the properties of the driver                                 *)
(***************************************************************************)
\* the bytes of a sequence of slices, in order
RECURSIVE Flatten(_)
Flatten(slices) ==
    IF slices = <<>> THEN <<>> ELSE Head(slices) \o Flatten(Tail(slices))

\* the bytes handed to spi.write so far by the operation, in call order
WireBytes == Flatten([i \in DOMAIN wire |-> wire[i].bytes])

\* the opcodes and payloads of the steps the operation completed, in order
SentBytes == Flatten([i \in DOMAIN trace |-> trace[i].bytes])

\* what a step is, apart from the level read at a wait
Shape(step) ==
    [kind |-> step.kind,
     level |-> IF step.kind = "rst" THEN step.level ELSE "none",
     ms |-> step.ms,
     bytes |-> step.bytes]

TraceShape == [i \in DOMAIN trace |-> Shape(trace[i])]

IsPrefix(a, b) == Len(a) <= Len(b) /\ a = SubSeq(b, 1, Len(a))

(***************************************************************************)
(* C16: command/data line discipline.  In every operation of the driver    *)
(* each opcode byte is handed to the bus while the DC line is low, set so  *)
(* by the same send_command, and each payload byte while it is high, set   *)
(* so by the same send_data; if setting the DC line fails, the operation   *)
(* returns the error and the byte is not written at all.                   *)
(***************************************************************************)
C16_Levels ==
    /\ \A i \in DOMAIN wire :
        /\ wire[i].kind = "command" => (wire[i].dc = "low" /\ Len(wire[i].bytes) = 1)
        /\ wire[i].kind = "data" => wire[i].dc = "high"
    /\ (drv_result = "running" /\ drv_phase = "write") =>
        dc = (IF DriverStep.kind = "command" THEN "low" ELSE "high")
    /\ (drv_result = "Digital" /\ DriverStep.kind \in {"command", "data"}) =>
        (drv_phase = "start" /\ WireBytes = SentBytes)

C16_SetBeforeWrite ==
    /\ wire' # wire /\ wire' # <<>> =>
        /\ drv_phase = "write"
        /\ dc' = dc
        /\ wire'[Len(wire')].dc = dc
        /\ wire'[Len(wire')].kind = DriverStep.kind
    /\ (drv_result = "running" /\ drv_phase = "start" /\ drv_phase' = "write") =>
        (wire' = wire /\ dc' = (IF DriverStep.kind = "command" THEN "low" ELSE "high"))
    /\ (drv_result = "running" /\ drv_result' = "Digital") => (wire' = wire /\ dc' = dc)

C16_LineDiscipline == []C16_Levels /\ [][C16_SetBeforeWrite]_vars

\* after an opcode and its payload were written, setting DC high for the
\* next payload failed: the operation returned and DC is still low
C16_Witness ==
    /\ drv_result = "Digital"
    /\ drv_op = "draw_buffer"
    /\ DriverStep.kind = "data"
    /\ dc = "low"
    /\ Len(trace) = 3
    /\ wire[Len(wire)].kind = "command"
    /\ wire[1].dc = "low"
    /\ wire[2].dc = "high"

(***************************************************************************)
(* C17: initialize() performs, in this order: hardware reset (RST high,    *)
(* 10 ms, low, 10 ms, high, 200 ms), wait while busy, the software reset   *)
(* command, wait while busy, driver output control, the RAM window (data   *)
(* entry mode, X range, Y range), border waveform, the RAM address         *)
(* counters, wait while busy.  It returns Ok only after the final wait,    *)
(* and the first step that fails ends the call: no later step is taken.    *)
(***************************************************************************)
C17_Sequence ==
    <<rst_set("high"), delay_ms(10), rst_set("low"), delay_ms(10), rst_set("high"),
      delay_ms(200),
      wait_until_idle,
      send_command(18),
      wait_until_idle,
      send_command(1), send_data(<<199, 0, 1>>),
      send_command(17), send_data(<<1>>),
      send_command(68), send_data(<<0, 24>>),
      send_command(69), send_data(<<199, 0, 0, 0>>),
      send_command(60), send_data(<<5>>),
      send_command(78), send_data(<<0>>),
      send_command(79), send_data(<<199>>), send_data(<<0>>),
      wait_until_idle>>

C17_InOrder ==
    drv_op = "initialize" =>
        /\ IsPrefix(TraceShape, C17_Sequence)
        /\ IsPrefix(WireBytes, Flatten([i \in DOMAIN C17_Sequence |-> C17_Sequence[i].bytes]))
        /\ drv_result = "Ok" <=> Len(trace) = Len(C17_Sequence)
        /\ drv_result = "Ok" => trace[Len(trace)].kind = "wait"
        /\ drv_result \in {"Spi", "Digital"} => Len(trace) < Len(C17_Sequence)
        /\ Len(trace) >= 5 => rst = "high"

C17_StopsAtFailure ==
    (drv_result \in {"Ok", "Spi", "Digital"} /\ drv_calls' = drv_calls /\ drv_op' = drv_op) =>
        UNCHANGED <<drv_result, trace, wire, dc, rst>>

C17_InitializeSequence == []C17_InOrder /\ [][C17_StopsAtFailure]_vars

\* initialize() returned Ok after its 25 steps
C17_Witness ==
    /\ drv_op = "initialize"
    /\ drv_result = "Ok"
    /\ Len(trace) = 25
    /\ rst = "high"
    /\ dc = "high"

(***************************************************************************)
(* C18: draw_buffer(buffer) writes the black plane unchanged after the     *)
(* write-RAM-black command, then after the write-RAM-chromatic command the *)
(* chromatic plane with every byte replaced by its bitwise complement,     *)
(* then refreshes: the bytes on the bus are always a prefix of that        *)
(* sequence, and the whole of it when the call returns Ok.                 *)
(***************************************************************************)
C18_OnTheBus ==
    LET frame == drv_frame[1]
        inverted == [i \in DOMAIN frame.chromatic |-> 255 - frame.chromatic[i]]
    IN  <<36>> \o frame.black \o <<38>> \o inverted \o <<34, 247, 32>>

C18_Planes ==
    drv_op = "draw_buffer" =>
        /\ IsPrefix(WireBytes, C18_OnTheBus)
        /\ drv_result = "Ok" =>
            /\ WireBytes = C18_OnTheBus
            /\ Len(trace) = 8
            /\ trace[1] = send_command(36)
            /\ trace[2] = send_data(drv_frame[1].black)
            /\ trace[3] = send_command(38)
            /\ \A i \in 1 .. PanelBytes :
                trace[4].bytes[i] + drv_frame[1].chromatic[i] = 255
            /\ trace[4].kind = "data"
            /\ trace[8].kind = "wait"

C18_DrawBuffer == []C18_Planes

\* a frame whose planes differ was drawn: the chromatic ramp went out
\* inverted after the black plane
C18_Witness ==
    /\ drv_op = "draw_buffer"
    /\ drv_result = "Ok"
    /\ drv_frame[1].black = [i \in 1 .. PanelBytes |-> 0]
    /\ drv_frame[1].chromatic = [i \in 1 .. PanelBytes |-> (85 * i) % 256]
    /\ trace[4].bytes[1] = 170

(***************************************************************************)
(* C19: refresh() issues the display-update-control command with the       *)
(* waveform selector 0xf7, then master activation, then waits while busy;  *)
(* it returns Ok only in a state where the BUSY line is low, which is      *)
(* not-busy, in the blocking and in the async driver.                      *)
(***************************************************************************)
C19_Tail ==
    (drv_op \in {"draw_buffer", "clear", "transfer_channels"} /\ drv_result = "Ok") =>
        LET n == Len(trace)
        IN  /\ n >= 4
            /\ trace[n - 3] = send_command(34)
            /\ trace[n - 2] = send_data(<<247>>)
            /\ trace[n - 1] = send_command(32)
            /\ trace[n].kind = "wait"
            /\ trace[n].level = "low"
            /\ SubSeq(WireBytes, Len(WireBytes) - 2, Len(WireBytes)) = <<34, 247, 32>>

C19_ReturnsWhenIdle ==
    /\ (drv_result = "running" /\ drv_result' = "Ok" /\ drv_op # "release") =>
        (busy = "low" /\ busy' = "low")
    /\ Len(trace') > Len(trace) /\ trace'[Len(trace')].kind = "wait" => busy = "low"

C19_Refresh == []C19_Tail /\ [][C19_ReturnsWhenIdle]_vars

\* the blocking driver cleared the panel and returned from the refresh
\* with the BUSY line low
C19_Witness ==
    /\ flavour = "blocking"
    /\ drv_op = "clear"
    /\ drv_result = "Ok"
    /\ busy = "low"
    /\ drv_calls = 1
    /\ trace[Len(trace)].level = "low"

(***************************************************************************)
(* C20, as stated: whatever the write mode, the bytes handed to the        *)
(* transport, concatenated in call order, are the payload exactly; in      *)
(* individual-write mode every transport call carries exactly one byte;    *)
(* the mode never changes after construction.                              *)
(***************************************************************************)
C20_Concatenation ==
    LET rest == IF drv_result = "none" \/ drv_phase = "start"
                THEN <<>>
                ELSE Flatten(SubSeq(write(DriverStep.bytes), 1, drv_off))
    IN  /\ WireBytes = SentBytes \o rest
        /\ IsPrefix(rest, IF drv_phase = "write" THEN DriverStep.bytes ELSE <<>>)

C20_Policy ==
    /\ C20_Concatenation
    /\ target_linux =>
        \A i \in DOMAIN wire : Len(wire[i].bytes) \in 1 .. MaxTransfer
    /\ (individual_writes /\ ~target_linux) =>
        \A i \in DOMAIN wire : Len(wire[i].bytes) = 1
    /\ (~individual_writes /\ ~target_linux) =>
        Len(wire) = Cardinality({i \in DOMAIN trace : trace[i].kind \in {"command", "data"}})
    /\ flavour = "blocking" => ~individual_writes

C20_ModeFixed ==
    UNCHANGED <<flavour, individual_writes, target_linux>>

C21_Sequence ==
    drv_op = "release" =>
        /\ IsPrefix(TraceShape, <<send_command(16), send_data(<<1>>), delay_ms(200)>>)
        /\ IsPrefix(WireBytes, <<16, 1>>)
        /\ \A i \in DOMAIN wire : wire[i].dc = (IF i = 1 THEN "low" ELSE "high")
        /\ drv_result = "Ok" => WireBytes = <<16, 1>> /\ Len(trace) = 3

C21_Consumed ==
    drv_op = "release" =>
        /\ drv_op' = "release" \/ (drv_result = "Ok" /\ drv_op' = "none")
        /\ drv_calls' = drv_calls
        /\ drv_result # "running" => UNCHANGED <<wire, trace, dc, rst>> \/ drv_op' = "none"
        /\ drv_op' = "none" => UNCHANGED <<dc, rst, busy>> /\ wire' = <<>>

C21_ReleaseConsumes == []C21_Sequence /\ [][C21_Consumed]_vars

\* release put the panel to deep sleep and returned the bus and the pins
C21_Witness ==
    /\ drv_op = "release"
    /\ drv_result = "Ok"
    /\ drv_calls = 2
    /\ WireBytes = <<16, 1>>
    /\ dc = "high"

(***************************************************************************)
(* C22, as stated: after the first boot every retained field (the boot     *)
(* counter, the epoch and offset of the clock, the history) is only read   *)
(* at boot and written once, just before deep sleep is entered again;      *)
(* between the two nothing retained changes, except that the history grows *)
(* by appends.                                                             *)
(***************************************************************************)
C22_HistoryAppends ==
    history' # history =>
        /\ display_pc = "receive"
        /\ channel # <<>>
        /\ history' = HistoryWrite(history, Head(channel))

C22_ClockSavedOnce ==
    BOOT_TIME' # BOOT_TIME =>
        /\ main_pc = "awake"
        /\ main_pc' = "persist"
        /\ ~Happened("persist")
        /\ Happened("persist")'

C22_WrittenBeforeSleepOnly ==
    [][BOOT_COUNT >= 1 =>
        /\ C22_HistoryAppends
        /\ C22_ClockSavedOnce
        /\ BOOT_COUNT' # BOOT_COUNT => (main_pc = "awake" /\ main_pc' = "persist")]_vars

(***************************************************************************)
(* C22, amended: the boot counter is read and incremented at boot, at the  *)
(* start of main, and is not written again in the session, not before      *)
(* sleep either; the epoch and offset of the clock are read at boot only   *)
(* and written once, just before deep sleep is entered; between boot and   *)
(* that save nothing retained changes, except that the history grows by    *)
(* the appends of the display task.                                        *)
(***************************************************************************)
C22_CounterAtBoot ==
    BOOT_COUNT' # BOOT_COUNT =>
        /\ main_pc = "boot"
        /\ events = <<>>
        /\ BOOT_COUNT' = BOOT_COUNT + 1

C22_ClockReadAtBoot ==
    (clock' # clock /\ clock' # <<>> /\ clock_built'.source = "rtc") =>
        /\ main_pc = "boot"
        /\ clock'[1].boot_time = BOOT_TIME.epoch - AsSecs(uptime)

C22_RetainedLifecycle ==
    [][/\ C22_HistoryAppends
       /\ C22_ClockSavedOnce
       /\ C22_CounterAtBoot
       /\ C22_ClockReadAtBoot]_vars

\* the second session: the clock was read from the retained memory, the
\* counter was incremented at boot, a reading was appended to the history
\* kept from the first session, and the clock was saved again
C22_Witness ==
    /\ BOOT_COUNT = 2
    /\ clock_built.source = "rtc"
    /\ main_pc = "persist"
    /\ received # <<>>
    /\ HistoryLen(history) > Len(received)
    /\ BOOT_TIME.epoch = NowAsEpoch(clock[1], uptime) + AsSecs(DEEP_SLEEP_DURATION)

(***************************************************************************)
(* C23: single-writer discipline on the retained memory.  Every write of   *)
(* HISTORY is a step of the display task, made after that task was         *)
(* spawned; every write of the retained clock is a step of the             *)
(* orchestrator; every write of the boot counter is the first step of      *)
(* main; a step of one task never writes a field another task writes, and  *)
(* outside the display task the history is left as it is.                  *)
(***************************************************************************)
C23_HistoryWriter ==
    history' # history =>
        /\ display_pc = "receive"
        /\ display_pc' = "report"
        /\ UNCHANGED <<main_pc, events, sensor_pc, wifi_pc, BOOT_TIME, BOOT_COUNT>>

C23_ClockWriter ==
    BOOT_TIME' # BOOT_TIME =>
        /\ main_pc' # main_pc
        /\ events' # events
        /\ UNCHANGED <<display_pc, sensor_pc, wifi_pc, history, BOOT_COUNT>>

C23_CounterWriter ==
    BOOT_COUNT' # BOOT_COUNT =>
        /\ main_pc = "boot"
        /\ main_pc' # main_pc
        /\ UNCHANGED <<display_pc, sensor_pc, history, BOOT_TIME>>

C23_SingleWriter ==
    [][C23_HistoryWriter /\ C23_ClockWriter /\ C23_CounterWriter]_vars

\* in the second session each of the three fields was written, each by its
\* own task, on top of what the first session left
C23_Witness ==
    /\ BOOT_COUNT = 2
    /\ main_pc = "asleep"
    /\ BOOT_TIME.epoch > saved.wall
    /\ received # <<>>
    /\ HistoryLen(history) > Len(received)
    /\ HistoryRecent(history) = <<received[Len(received)]>>

(***************************************************************************)
(* C24: WiFi is off whenever deep sleep is entered.  At the moment         *)
(* enter_deep is called the WiFi controller was either never started in    *)
(* this session (a boot that took its clock from the retained memory) or   *)
(* was stopped by the connection task after the orchestrator raised the    *)
(* stop signal that follows a successful synchronization.                  *)
(***************************************************************************)
C24_WifiOffAtDeepSleep ==
    main_pc = "asleep" =>
        \/ wifi_pc = "off" /\ clock_built.source = "rtc"
        \/ wifi_pc = "left" /\ clock_built.source = "server"

C25_Sources ==
    /\ \A i \in DOMAIN sources : sources[i] = (IF i = 1 THEN "server" ELSE "rtc")
    /\ main_pc \in {"persist", "asleep"} => BOOT_TIME.epoch # 0
    /\ Len(sources) <= BOOT_COUNT

C25_SourceChosen ==
    /\ BOOT_TIME.epoch # 0 => BOOT_TIME'.epoch # 0
    /\ sources' # sources =>
        /\ sources' = Append(sources, clock_built'.source)
        /\ clock_built'.source = "server" => (BOOT_TIME.epoch = 0 /\ wifi_pc # "off")
        /\ clock_built'.source = "rtc" =>
            (BOOT_TIME.epoch # 0 /\ wifi_pc = "off" /\ clock_built'.wall = BOOT_TIME.epoch)

C26_Decode(black, chromatic) ==
    CASE black = 0 /\ chromatic = 0 -> "Chromatic"
      [] black = 1 /\ chromatic = 1 -> "White"
      [] black = 0 /\ chromatic = 1 -> "Black"
      [] OTHER -> "Reserved"

C26_PlaneCombination ==
    \A at \in DOMAIN painted :
        painted[at] # "none" =>
            C26_Decode(PlaneBit(buffer.black, at[1], at[2]),
                       PlaneBit(buffer.chromatic, at[1], at[2])) = painted[at]

(***************************************************************************)
(* C27: rotation is applied at draw time.  After set_rotation(R), drawing  *)
(* a pixel at the logical position (x, y) writes the bit at the position   *)
(* obtained by rotating (x, y) by R, so that the same draw under another   *)
(* rotation modifies another bit of the planes, except at the fixed points *)
(* of the rotation; no rotation is stored per pixel.                       *)
(***************************************************************************)
\* (x, y) rotated clockwise by the rotation on the panel
C27_Rotated(x, y, rotation) ==
    CASE rotation = "Rotate0" -> [x |-> x, y |-> y]
      [] rotation = "Rotate90" -> [x |-> BufferWidth - 1 - y, y |-> x]
      [] rotation = "Rotate180" -> [x |-> BufferWidth - 1 - x, y |-> BufferHeight - 1 - y]
      [] rotation = "Rotate270" -> [x |-> y, y |-> BufferHeight - 1 - x]

C27_RotationAtDrawTime ==
    [][(draws' = draws + 1 /\ drawn'[1].color = "Black") =>
        LET pixel == drawn'[1]
            at == C27_Rotated(pixel.x, pixel.y, buffer.rotation)
        IN  (at.x \in 0 .. BufferWidth - 1 /\ at.y \in 0 .. BufferHeight - 1) =>
                /\ PlaneBit(buffer'.black, at.x, at.y) = 0
                /\ \A x \in 0 .. BufferWidth - 1, y \in 0 .. BufferHeight - 1 :
                        <<x, y>> # <<at.x, at.y>> =>
                            PlaneBit(buffer'.black, x, y) = PlaneBit(buffer.black, x, y)
                /\ buffer'.rotation = buffer.rotation]_vars

(***************************************************************************)
(* C29: RAM window validation.  In set_ram_size(200, 200) every assertion  *)
(* holds on every call; the X window sent is 0x00, 0x18 (width / 8 - 1)    *)
(* and the Y window sent is start 199 and end 0, each as two little-endian *)
(* bytes: 0xc7, 0x00, 0x00, 0x00; no call of initialize panics on these    *)
(* assertions.                                                             *)
(***************************************************************************)
C29_AssertionsHold ==
    /\ drv_result # "panic"
    /\ (drv_result = "running" /\ DriverStep.kind = "assert") => DriverStep.level = "holds"

C29_Windows ==
    drv_op = "initialize" =>
        \A i \in DOMAIN trace :
            (i > 1 /\ trace[i - 1].kind = "command") =>
                /\ trace[i - 1].bytes = <<68>> => trace[i].bytes = <<0, WIDTH \div 8 - 1>>
                /\ trace[i - 1].bytes = <<68>> => trace[i].bytes = <<0, 24>>
                /\ trace[i - 1].bytes = <<69>> => trace[i].bytes = <<199, 0, 0, 0>>

C29_RamWindow == C29_AssertionsHold /\ C29_Windows

\* the blocking driver completed initialize: both groups of assertions were
\* passed and both windows were sent
C29_Witness ==
    /\ flavour = "blocking"
    /\ drv_op = "initialize"
    /\ drv_result = "Ok"
    /\ drv_step = Len(initialize)
    /\ \E i, j \in DOMAIN trace :
        /\ i < j
        /\ trace[i].bytes = <<0, 24>>
        /\ trace[j].bytes = <<199, 0, 0, 0>>

(***************************************************************************)
(* C28: the blocking and the async driver implement one protocol.  For     *)
(* each of initialize, clear, draw_buffer, transfer_channels and release,  *)
(* given the same inputs and a transport that does not fail, both drivers, *)
(* in every write mode, make the same transitions of the reset line, hand  *)
(* the same (DC level, byte) pairs to the bus in the same order and wait   *)
(* for the panel at the same points, each wait ending with the panel not   *)
(* busy: what they do is a function of the operation and its inputs only.  *)
(***************************************************************************)
\* the steps of the operation on the pins and the bus, which depend on the
\* operation and its inputs only
C28_Protocol ==
    LET OnHardware(step) == step.kind # "assert"
    IN  SelectSeq(DriverScript, OnHardware)

\* the (DC level, byte) pairs of a sequence of steps
C28_Pairs(steps) ==
    Flatten([i \in DOMAIN steps |->
        IF steps[i].kind \in {"command", "data"}
        THEN [j \in DOMAIN steps[i].bytes |->
                <<IF steps[i].kind = "command" THEN "low" ELSE "high", steps[i].bytes[j]>>]
        ELSE <<>>])

\* the (DC level, byte) pairs handed to the bus so far
C28_WirePairs ==
    Flatten([i \in DOMAIN wire |->
        [j \in DOMAIN wire[i].bytes |-> <<wire[i].dc, wire[i].bytes[j]>>]])

C30_WaitComputed ==
    /\ sensor_pc \in {"warmup", "wait", "read", "send"}
    /\ sensor_pc' = "wait"
    /\ sensor_timer' # sensor_timer \/ sensor_pc # "wait"

C30_WaitInRange ==
    C30_WaitComputed =>
        LET wait == sensor_timer' - uptime
            epoch == NowAsEpoch(sensor_clock[1], uptime)
        IN  /\ wait >= FromSecs(1)
            /\ wait <= SAMPLING_PERIOD
            /\ wait = FromSecs(AsSecs(wait))
            /\ (epoch + AsSecs(wait)) % AsSecs(SAMPLING_PERIOD) = 0
            /\ uptime' = uptime

C30_StartsOnBoundary ==
    (sensor_pc = "wait" /\ sensor_pc' = "read") =>
        /\ uptime = sensor_timer
        /\ NowAsEpoch(sensor_clock[1], uptime) % AsSecs(SAMPLING_PERIOD) = 0
        /\ cycle_now' = NowAsEpoch(sensor_clock[1], uptime)

C30_WaitToBoundary == [][C30_WaitInRange /\ C30_StartsOnBoundary]_vars

\* a cycle that started on a boundary took StallSecs seconds to read the
\* sensor or to pass the reading to the full channel; the wait computed then
\* is what is left of the period, and ends on the next boundary
C30_Witness ==
    /\ sensor_pc = "wait"
    /\ Len(sent) >= 2
    /\ sent[Len(sent)].time % AsSecs(SAMPLING_PERIOD) = 0
    /\ NowAsEpoch(sensor_clock[1], uptime) = sent[Len(sent)].time + StallSecs
    /\ sensor_timer = uptime + SAMPLING_PERIOD - FromSecs(StallSecs % AsSecs(SAMPLING_PERIOD))
    /\ NowAsEpoch(sensor_clock[1], sensor_timer) % AsSecs(SAMPLING_PERIOD) = 0

(***************************************************************************)
(* C31: an error of the clock is recoverable where it is met.  When        *)
(* clock.now() fails in a sampling cycle, sample_and_send returns before   *)
(* the sensor is read, nothing is sent into the channel in that cycle, and *)
(* the sensor task goes on to the wait and to the next cycle: the task     *)
(* does not exit and the content of the channel is unchanged.              *)
(***************************************************************************)
\* the timer of the sensor task elapsed and a cycle starts in this step
C31_CycleStarts ==
    /\ sensor_pc \in {"warmup", "wait"}
    /\ uptime >= sensor_timer
    /\ sensor_pc' = "read" \/ sensor_timer' # sensor_timer
    /\ main_pc' # "boot"

C31_FailedCycle ==
    (C31_CycleStarts /\ ~ClockNow(sensor_clock[1], uptime).ok) =>
        /\ sensor_pc' = "wait"
        /\ sensor_timer' > uptime
        /\ UNCHANGED <<channel, sent, reading, cycle_now, received, history>>

\* the sensor is read, and a reading is sent, only in a cycle that took the time
C31_ReadsWithTime ==
    /\ sensor_pc' = "read" /\ sensor_pc # "read" => ClockNow(sensor_clock[1], uptime).ok
    /\ sent' # sent /\ sent' # <<>> =>
            /\ sent' = Append(sent, sent'[Len(sent')])
            /\ sent'[Len(sent')].time = cycle_now
            /\ cycle_now + sensor_clock[1].offset <= MaxUnixTimestamp

\* once spawned the task stands at an await of its loop, in every session
C31_TaskInLoop ==
    sensor_pc \in {"unspawned", "init", "warmup", "wait", "read", "send"}

C31_ClockErrorRecoverable ==
    []C31_TaskInLoop /\ [][C31_FailedCycle /\ C31_ReadsWithTime]_vars

\* clock.now() failed in two cycles in a row, after two readings were sent:
\* the task waits for the next boundary and the channel holds what it held
C31_Witness ==
    /\ sensor_pc = "wait"
    /\ Len(sent) >= 2
    /\ ~ClockNow(sensor_clock[1], uptime).ok
    /\ sensor_timer > uptime
    /\ NowAsEpoch(sensor_clock[1], sensor_timer) - sent[Len(sent)].time
            > 2 * AsSecs(SAMPLING_PERIOD)

(***************************************************************************)
(* C32: a failure of the initialization of the sensor is not fatal.        *)
(* Whether initialize() returns Ok or an error, the sensor task goes       *)
(* through the warm-up delay and then enters the loop of sampling and      *)
(* waiting: Initialize, Warmup and the loop are passed in that order in    *)
(* every session in which the task is spawned.                             *)
(***************************************************************************)
\* the steps sample_task can take from one await to the next
C32_Steps ==
    {<<"unspawned", "init">>, <<"init", "warmup">>, <<"warmup", "read">>,
     <<"warmup", "wait">>, <<"wait", "read">>, <<"read", "wait">>,
     <<"read", "send">>, <<"send", "wait">>}

C32_InOrder ==
    sensor_pc' # sensor_pc =>
        \/ main_pc' = "boot" /\ sensor_pc' = "unspawned"
        \/ /\ <<sensor_pc, sensor_pc'>> \in C32_Steps
           /\ sensor_pc = "init" => sensor_timer' = uptime + WARMUP_INTERVAL
           /\ sensor_pc = "warmup" => uptime >= sensor_timer
           /\ sensor_pc # "unspawned" => UNCHANGED sensor_health

\* the task is in the loop only after the whole warm-up delay, and never ends
C32_Warmed ==
    /\ sensor_pc \in {"unspawned", "init", "warmup", "wait", "read", "send"}
    /\ sensor_pc \in {"wait", "read", "send"} => uptime >= WARMUP_INTERVAL
    /\ sensor_pc \in {"unspawned", "init", "warmup"} => sent = <<>>

C32_InitFailureNotFatal == []C32_Warmed /\ [][C32_InOrder]_vars

\* the sensor does not answer on the bus, so initialize() failed; the task
\* is in its loop and has sent two readings
C32_Witness ==
    /\ sensor_health = "bus_error"
    /\ sensor_pc = "wait"
    /\ Len(sent) >= 2
    /\ sensor_timer > uptime

(***************************************************************************)
(* C33: on a fatal failure of the boot (credentials, WiFi, synchronization *)
(* of the clock, DMA, SPI or I2C setup) the orchestrator only logs and     *)
(* returns.  In that session the retained clock is never written and deep  *)
(* sleep is never entered, so the device stays awake indefinitely, and the *)
(* tasks spawned before the failure keep running.                          *)
(***************************************************************************)
\* the errors main_fallible can return
C33_Errors ==
    {"ParseCredentials", "Wifi", "Synchronization", "TimeComponentRange",
     "InvalidInOffset", "SpiConfig", "DmaBuffer", "I2cConfig"}

C33_Returned ==
    /\ main_error # "none" <=> main_pc = "returned"
    /\ main_pc = "returned" =>
        /\ main_error \in C33_Errors
        /\ ~Happened("awake_elapsed")
        /\ ~Happened("persist")
        /\ wakeup_timer = 0
        /\ saved = clock_built.prior
        /\ BOOT_TIME.epoch # 0 =>
            /\ BOOT_TIME.epoch = saved.wall + saved.counted + AsSecs(DEEP_SLEEP_DURATION)
            /\ BOOT_TIME.offset = saved.offset
        /\ main_error = "I2cConfig" => display_pc # "unspawned" /\ sensor_pc = "unspawned"

C33_StaysAwake ==
    main_pc = "returned" =>
        /\ main_pc' = "returned"
        /\ UNCHANGED <<BOOT_TIME, BOOT_COUNT, main_error, wakeup_timer, events, saved>>
        /\ uptime' >= uptime
        /\ display_pc # "unspawned" => display_pc' # "unspawned"
        /\ wifi_pc # "off" => wifi_pc' # "off"
        /\ sensor_pc' = sensor_pc

C33_FatalBootFailure == []C33_Returned /\ [][C33_StaysAwake]_vars

\* the I2C setup failed after the display task was spawned: main returned,
\* and the display task initialized the panel afterwards and waits for a
\* reading
C33_Witness ==
    /\ main_pc = "returned"
    /\ main_error = "I2cConfig"
    /\ display_pc = "receive"
    /\ sensor_pc = "unspawned"
    /\ BOOT_COUNT = 2
    /\ BOOT_TIME.epoch = saved.wall + saved.counted + AsSecs(DEEP_SLEEP_DURATION)

(***************************************************************************)
(* C34: once both pipelines are spawned, the orchestrator eventually       *)
(* persists the clock and powers down, whatever the pipelines do: when the *)
(* sensor task is suspended on the full channel, when the display task has *)
(* exited, and when the display task waits forever for a busy line that    *)
(* never clears.  No state of a pipeline delays or prevents the power-     *)
(* down, and the orchestrator waits for neither task.                      *)
(***************************************************************************)
\* the awake period ends AWAKE_PERIOD after the sensor task was spawned, and
\* time does not pass beyond it with the orchestrator still awake
C34_NotDelayed ==
    /\ main_pc = "awake" => uptime <= awake_until
    /\ main_pc \in {"persist", "asleep"} =>
        /\ uptime = awake_until
        /\ Happened("persist")
        /\ BOOT_TIME = SaveToRtcMemory(clock[1], DEEP_SLEEP_DURATION, awake_until)

C35_Initialized ==
    /\ display_pc \in {"unspawned", "init", "receive", "report", "exited"}
    /\ init_result = "none" <=> display_pc \in {"unspawned", "init"}
    /\ init_result = "Err" <=> display_pc = "exited"
    /\ display_pc = "report" => init_result = "Ok"
    /\ init_result # "Ok" =>
        /\ received = <<>>
        /\ report_result = "none"
        /\ display_now = 0

\* the driver is initialized once in a session, before the first report, and
\* the task's only other call on it is the draw_buffer of report()
C35_CallsInOrder ==
    /\ (init_result' # init_result /\ main_pc' # "boot") =>
        (display_pc = "init" /\ init_result = "none")
    /\ (display_pc' = "report" /\ display_pc # "report") =>
        (display_pc = "receive" /\ init_result = "Ok" /\ init_result' = "Ok")
    /\ (display_pc' # display_pc /\ main_pc' # "boot") =>
        <<display_pc, display_pc'>> \in
            {<<"unspawned", "init">>, <<"init", "receive">>, <<"init", "exited">>,
             <<"receive", "report">>, <<"report", "receive">>}

C35_DrawOnlyInitialized == []C35_Initialized /\ [][C35_CallsInOrder]_vars

\* the third report of a session is under way on the initialized driver
C35_Witness ==
    /\ display_pc = "report"
    /\ init_result = "Ok"
    /\ Len(received) = 3
    /\ report_result \in {"Ok", "Display"}

(***************************************************************************)
(* C36: every reading received by the display task is appended to the     *)
(* History before rendering starts, and stays appended whether rendering   *)
(* and transfer then succeed or fail; the sample rendered in a cycle is    *)
(* always the reading just received, which is the most recent entry of the *)
(* History, and the time rendered is the timestamp of that reading.        *)
(***************************************************************************)
\* the readings received in this session are the last ones appended, in order
C36_ReceivedAreAppended ==
    /\ Len(appended) >= Len(received)
    /\ received = SubSeq(appended, Len(appended) - Len(received) + 1, Len(appended))
    /\ received # <<>> =>
        /\ HistoryRecent(history) = <<received[Len(received)]>>
        /\ HistoryLen(history) >= 1
    /\ display_pc = "report" =>
        /\ received # <<>>
        /\ display_now = received[Len(received)].time
        /\ display_now = HistoryRecent(history)[1].time

C36_AppendedFirst ==
    /\ (received' # received /\ main_pc' # "boot") =>
        /\ display_pc = "receive" /\ display_pc' = "report"
        /\ channel # <<>>
        /\ received' = Append(received, Head(channel))
        /\ appended' = Append(appended, Head(channel))
        /\ history' = HistoryWrite(history, Head(channel))
        /\ HistoryRecent(history') = <<Head(channel)>>
        /\ display_now' = Head(channel).time
    /\ (display_pc = "report" /\ display_pc' # "report" /\ main_pc' # "boot") =>
        /\ report_result' \in {"Ok", "Display"}
        /\ UNCHANGED <<history, appended, received>>
    /\ appended' # appended => (received' # received /\ main_pc' # "boot")
    /\ history' # history => appended' # appended

C36_AppendedBeforeRendering == []C36_ReceivedAreAppended /\ [][C36_AppendedFirst]_vars

\* the report of the second reading failed: the reading is the most recent
\* entry of the history and the task waits for the third
C36_Witness ==
    /\ display_pc = "receive"
    /\ report_result = "Display"
    /\ Len(received) = 2
    /\ channel = <<>>
    /\ HistoryRecent(history) = <<received[2]>>
    /\ HistoryOldestOrdered(history)[HistoryLen(history) - 1] = received[1]

(***************************************************************************)
(* C37, as stated: every reading whose send into the channel completed     *)
(* during an awake window has been appended to the History by the time the *)
(* orchestrator powers down, so that no reading sent by the sensor task is *)
(* missing from the History found at the next boot.                        *)
(***************************************************************************)
C37_AllSentAppended ==
    main_pc = "asleep" =>
        /\ Len(appended) >= Len(sent)
        /\ sent = SubSeq(appended, Len(appended) - Len(sent) + 1, Len(appended))

(***************************************************************************)
(* C37, amended: at power-down the readings whose send completed in the    *)
(* session are those the display task appended to the History, in order,   *)
(* followed by those still queued in the channel, at most three; the       *)
(* queued ones are not in the History and are discarded with the channel   *)
(* when the chip restarts, and the History found at the next boot is the   *)
(* one left at power-down.                                                 *)
(***************************************************************************)
C37_SentAtPowerDown ==
    main_pc \in {"persist", "asleep"} =>
        /\ sent = received \o channel
        /\ Len(channel) <= CHANNEL_CAPACITY
        /\ Len(appended) >= Len(received)
        /\ received = SubSeq(appended, Len(appended) - Len(received) + 1, Len(appended))
        /\ \A i \in 1 .. Len(channel) :
                \A j \in 1 .. Len(received) : channel[i].time > received[j].time

C37_QueuedDiscarded ==
    main_pc = "asleep" =>
        /\ UNCHANGED <<history, appended>>
        /\ main_pc' = "boot" => channel' = <<>> /\ received' = <<>> /\ sent' = <<>>

C37_QueuedReadingsLost == []C37_SentAtPowerDown /\ [][C37_QueuedDiscarded]_vars

\* power-down with five readings sent of which the display task took two:
\* three are queued and are not in the history
C37_Witness ==
    /\ main_pc = "asleep"
    /\ Len(sent) = 5
    /\ Len(received) = 2
    /\ Len(channel) = 3
    /\ HistoryRecent(history) = <<sent[2]>>

(***************************************************************************)
(* C38: the timestamps in the History are non-decreasing in the order of   *)
(* arrival, within a session and across any number of sleep cycles that    *)
(* load the clock from the retained memory: a reading appended later never *)
(* carries an earlier instant than one appended before it.                 *)
(***************************************************************************)
C38_NonDecreasing ==
    /\ \A i \in 1 .. Len(appended) : \A j \in i .. Len(appended) :
            appended[i].time <= appended[j].time
    /\ LET ordered == HistoryOldestOrdered(history)
           n == HistoryLen(history)
       IN  \A i \in 1 .. n : \A j \in i .. n : ordered[i].time <= ordered[j].time

\* a reading is appended with an instant not before the most recent entry
C38_AppendsLater ==
    (history' # history /\ HistoryRecent(history) # <<>>) =>
        /\ HistoryRecent(history') # <<>>
        /\ HistoryRecent(history')[1].time >= HistoryRecent(history)[1].time

C38_HistoryMonotonic == []C38_NonDecreasing /\ [][C38_AppendsLater]_vars

\* the second session took its clock from the retained memory and appended a
\* reading after those of the first session
C38_Witness ==
    /\ sources = <<"server", "rtc">>
    /\ received # <<>>
    /\ Len(appended) >= Len(received) + 2
    /\ appended[Len(appended) - Len(received)].time < received[1].time
    /\ HistoryRecent(history) = <<received[Len(received)]>>

(***************************************************************************)
(* C39: Clock::new never underflows.  On every call that is reached, from  *)
(* from_server with a timestamp the time source returns or from            *)
(* from_rtc_memory with a retained epoch that is not zero, current_time is *)
(* at least the uptime in seconds, so that boot_time = current_time -      *)
(* uptime is a valid unsigned value, and now_as_epoch() is the wall time   *)
(* that was supplied plus the uptime that elapsed since.                   *)
(***************************************************************************)
C39_BootTimeValid ==
    clock # <<>> =>
        LET from_boot == AsSecs(clock_built.at)
        IN  /\ clock_built.source \in {"server", "rtc"}
            /\ clock_built.wall >= from_boot
            /\ clock[1].boot_time = clock_built.wall - from_boot
            /\ clock[1].boot_time >= 0
            /\ uptime >= clock_built.at
            /\ NowAsEpoch(clock[1], uptime) =
                    clock_built.wall + (AsSecs(uptime) - from_boot)
            /\ sensor_clock # <<>> => sensor_clock = clock

\* the arguments of every call of Clock::new
C39_Calls ==
    (clock' # clock /\ clock' # <<>>) =>
        /\ clock = <<>>
        /\ clock_built'.at = uptime
        /\ clock_built'.wall >= AsSecs(uptime)
        /\ clock_built'.source = "rtc" =>
            (clock_built'.wall = BOOT_TIME.epoch /\ BOOT_TIME.epoch # 0)
        /\ clock_built'.source = "server" => clock_built'.wall \in ServerTimes
        /\ clock' = <<ClockNew(clock_built'.wall, clock'[1].offset, uptime)>>

C40_Position(x, y) ==
    LET at == get_index_and_offset(x, y)
    IN  [index |-> at.index, bit |-> 8 - at.offset - 1]

C40_Panel == (0 .. BufferWidth - 1) \X (0 .. BufferHeight - 1)

\* the positions of the panel: the formula of the byte and of the bit, inside
\* the plane, and no position shared by two pixels
C40_PositionsDistinct ==
    /\ \A p \in C40_Panel :
            /\ C40_Position(p[1], p[2]).index = (p[1] + p[2] * BufferWidth) \div 8
            /\ C40_Position(p[1], p[2]).bit = 7 - ((p[1] + p[2] * BufferWidth) % 8)
            /\ C40_Position(p[1], p[2]).index \in 0 .. BYTE_SIZE - 1
            /\ C40_Position(p[1], p[2]).bit \in 0 .. 7
    /\ \A p \in C40_Panel, q \in C40_Panel :
            p # q => C40_Position(p[1], p[2]) # C40_Position(q[1], q[2])

C40_Positions ==
    /\ C40_PositionsDistinct
    /\ DOMAIN buffer.black = 0 .. BYTE_SIZE - 1
    /\ DOMAIN buffer.chromatic = 0 .. BYTE_SIZE - 1

\* the byte after a draw is the byte before it, but for the bit given
C40_ButForBit(before, after, bit) ==
    after \in {before,
               IF BitOf(before, bit) = 1 THEN before - 2 ^ bit ELSE before + 2 ^ bit}

C40_OnlyThatBit ==
    (draws' = draws + 1 /\ buffer' # buffer) =>
        LET pixel == drawn'[1]
            at == C40_Position(pixel.x, pixel.y)
        IN  /\ InBounds(pixel)
            /\ pixel.color # "Transparent"
            /\ buffer'.rotation = buffer.rotation
            /\ \A i \in 0 .. BYTE_SIZE - 1 :
                    IF i = at.index
                    THEN /\ C40_ButForBit(buffer.black[i], buffer'.black[i], at.bit)
                         /\ C40_ButForBit(buffer.chromatic[i], buffer'.chromatic[i], at.bit)
                    ELSE /\ buffer'.black[i] = buffer.black[i]
                         /\ buffer'.chromatic[i] = buffer.chromatic[i]

C40_DrawingLocal == []C40_Positions /\ [][C40_OnlyThatBit]_vars

\* the third draw changed one bit of the second byte of the black plane, and
\* the bits changed by the draws before it, in the first byte, are kept
C40_Witness ==
    /\ draws = 3
    /\ drawn # <<>>
    /\ InBounds(drawn[1])
    /\ drawn[1].color = "Black"
    /\ C40_Position(drawn[1].x, drawn[1].y).index = 1
    /\ buffer.black[1] = 255 - 2 ^ C40_Position(drawn[1].x, drawn[1].y).bit
    /\ buffer.black[0] # 255
    /\ buffer.chromatic[0] # 255
    /\ buffer.chromatic[1] = 255

=============================================================================
